---------------------------- MODULE Spec2Model ----------------------------
(***************************************************************************)
(* A model of the BSDF converter of                                        *)
(* ansys_optical_automation/interop_process/Convert_BSDF_Zemax_to_Speos.py *)
(*                                                                         *)
(* Numbers.  The program computes with IEEE doubles.  The model computes   *)
(* with fixed-point integers:                                              *)
(*   - an angle is an integer number of millidegrees (Deg(30) = 30000);    *)
(*   - a sine, a cosine or a cartesian coordinate is an integer number of  *)
(*     1/Scale (Scale = 10^4);                                             *)
(*   - an interpolation weight is an integer number of 1/Unit, and a BSDF  *)
(*     value an integer number of 1/Unit (Unit = 10^3).                    *)
(* Arrays keep the program's 0-based indices: an array of length n is a    *)
(* function with domain 0..n-1.                                            *)
(***************************************************************************)
EXTENDS Integers, Sequences, FiniteSets, TLC

Scale == 10 * 1000          \* fixed-point unit of sines, cosines, coordinates
Unit  == 10 * 100           \* fixed-point unit of weights and BSDF values
Deg(d) == d * 1000          \* d degrees, in millidegrees

Abs(x) == IF x < 0 THEN -x ELSE x
Min2(a, b) == IF a <= b THEN a ELSE b
Max2(a, b) == IF a >= b THEN a ELSE b
len(a) == Cardinality(DOMAIN a)
Arr(s) == [x \in 0..(Len(s) - 1) |-> s[x + 1]]   \* the 0-based array of a tuple

\* Python's round(): to the nearest multiple of m, a tie going to the even one.
RoundHalfEven(n, m) ==
    LET q == n \div m
        r == n % m
    IN  IF 2 * r < m THEN q * m
        ELSE IF 2 * r > m THEN (q + 1) * m
        ELSE IF q % 2 = 0 THEN q * m ELSE (q + 1) * m

\* n / d to the nearest integer (d > 0): the rounding of one float operation.
RoundDiv(n, d) == RoundHalfEven(n, d) \div d

RECURSIVE SqrtSearch(_, _, _)
SqrtSearch(v, lo, hi) ==
    IF lo >= hi THEN lo
    ELSE LET mid == (lo + hi + 1) \div 2
         IN  IF mid * mid <= v THEN SqrtSearch(v, mid, hi)
             ELSE SqrtSearch(v, lo, mid - 1)

\* math.sqrt, to the nearest integer.
Sqrt(v) ==
    LET f == SqrtSearch(v, 0, 3 * Scale)
    IN  IF v - f * f <= f THEN f ELSE f + 1

\* round(sin(d degrees) * Scale) for d = 0..90.
SinTab ==
 << 0,   175,   349,   523,   698,   872,  1045,  1219,  1392,  1564,
   1736,  1908,  2079,  2250,  2419,  2588,  2756,  2924,  3090,  3256,
   3420,  3584,  3746,  3907,  4067,  4226,  4384,  4540,  4695,  4848,
   5000,  5150,  5299,  5446,  5592,  5736,  5878,  6018,  6157,  6293,
   6428,  6561,  6691,  6820,  6947,  7071,  7193,  7314,  7431,  7547,
   7660,  7771,  7880,  7986,  8090,  8192,  8290,  8387,  8480,  8572,
   8660,  8746,  8829,  8910,  8988,  9063,  9135,  9205,  9272,  9336,
   9397,  9455,  9511,  9563,  9613,  9659,  9703,  9744,  9781,  9816,
   9848,  9877,  9903,  9925,  9945,  9962,  9976,  9986,  9994,  9998,
  10000 >>

SinDeg(d) ==
    LET a == d % 360
    IN  IF a <= 90 THEN SinTab[a + 1]
        ELSE IF a <= 180 THEN SinTab[180 - a + 1]
        ELSE IF a <= 270 THEN -SinTab[a - 180 + 1]
        ELSE -SinTab[360 - a + 1]

CosDeg(d) == SinDeg(d + 90)

\* math.sin / math.cos of an angle given in millidegrees (the program's
\* "angle * math.pi / 180" followed by the library call).
Sin(a) ==
    LET d == a \div 1000
        f == a % 1000
    IN  IF f = 0 THEN SinDeg(d)
        ELSE RoundDiv(SinDeg(d) * (1000 - f) + SinDeg(d + 1) * f, 1000)

Cos(a) == Sin(a + Deg(90))

\* math.acos(z) * (180 / math.pi), in millidegrees.
Acos(z) ==
    LET zc == Max2(-Scale, Min2(Scale, z))
        d  == CHOOSE e \in 0..179 : CosDeg(e) >= zc /\ zc >= CosDeg(e + 1)
    IN  Deg(d) + RoundDiv((CosDeg(d) - zc) * 1000, CosDeg(d) - CosDeg(d + 1))

\* The angle in [0, 90] degrees of the direction (x, y), x >= 0, y >= 0.
AtanQ(y, x) ==
    IF x = 0 /\ y = 0 THEN 0
    ELSE LET g(e) == y * CosDeg(e) - x * SinDeg(e)
             d    == CHOOSE e \in 0..89 : g(e) >= 0 /\ 0 >= g(e + 1)
         IN  IF g(d) = g(d + 1) THEN Deg(d)
             ELSE Deg(d) + RoundDiv(g(d) * 1000, g(d) - g(d + 1))

\* math.atan(y / x) * (180 / math.pi), x # 0: in (-90, 90) degrees.
Atan(y, x) ==
    IF (y >= 0) = (x > 0) THEN AtanQ(Abs(y), Abs(x)) ELSE -AtanQ(Abs(y), Abs(x))

\* math.atan2(y, x) * (180 / math.pi): in (-180, 180] degrees; a is the
\* angle of (|x|, |y|).
Atan2Quadrant(a, y, x) ==
    IF x >= 0 THEN (IF y >= 0 THEN a ELSE -a)
    ELSE (IF y >= 0 THEN Deg(180) - a ELSE a - Deg(180))

Atan2(y, x) == Atan2Quadrant(AtanQ(Abs(y), Abs(x)), y, x)

Unbound == "Unbound"        \* a local the program has not assigned

\* "Conversion to cartesian coordinates": <<x_i, y_i, z_i>>.
Cartesian(theta_i, phi_i) ==
    << RoundDiv(Sin(theta_i) * Cos(phi_i), Scale),
       RoundDiv(Sin(theta_i) * Sin(phi_i), Scale),
       Cos(theta_i) >>

\* "Normalization": v divided by norm.
DividedBy(v, norm) ==
    << RoundDiv(v[1] * Scale, norm), RoundDiv(v[2] * Scale, norm), RoundDiv(v[3] * Scale, norm) >>

Normalized(v) == DividedBy(v, Sqrt(v[1] * v[1] + v[2] * v[2] + v[3] * v[3]))

\* "Conversion to new specular cartesian coordinates"; sin and cos are those
\* of angle_inc.
ToSpecularCartesian(v, sin, cos) ==
    << RoundDiv(v[1] * cos - v[3] * sin, Scale),
       v[2],
       RoundDiv(v[1] * sin + v[3] * cos, Scale) >>

\* The branches for y_o > 0 and y_o < 0 exchanged, against which C19 is tried.
SpecularPhiMutant(x_o, y_o, atan) ==
    IF x_o = 0
    THEN IF y_o < 0 THEN Deg(90) ELSE IF y_o > 0 THEN Deg(270) ELSE 0
    ELSE IF x_o < 0 THEN Deg(180) + atan
    ELSE IF y_o < 0 THEN Deg(360) + atan
    ELSE atan

\* phi_o of lines 50-63; atan is math.atan(y_o / x_o) in millidegrees and is
\* read only when x_o # 0.
SpecularPhi(x_o, y_o, atan) ==
    IF x_o = 0
    THEN IF y_o < 0 THEN Deg(270) ELSE IF y_o > 0 THEN Deg(90) ELSE 0
    ELSE IF x_o < 0 THEN Deg(180) + atan
    ELSE IF y_o < 0 THEN Deg(360) + atan
    ELSE atan

\* "added lines to change phi ref" (lines 65-69)
ChangePhiRef(phi_o) == IF phi_o < Deg(180) THEN phi_o + Deg(180) ELSE phi_o - Deg(180)

SpecularAngles(v) ==
    << Acos(v[3]),
       ChangePhiRef(SpecularPhi(v[1], v[2], IF v[1] = 0 THEN 0 ELSE Atan(v[2], v[1]))) >>

\* convert_normal_to_specular_using_cartesian: <<theta_o, phi_o>>.
convert_normal_to_specular_using_cartesian(theta_i, phi_i, angle_inc) ==
    SpecularAngles(Normalized(
        ToSpecularCartesian(Cartesian(theta_i, phi_i), Sin(angle_inc), Cos(angle_inc))))

\* "Conversion to new normal cartesian coordinates" (lines 97-99)
ToNormalCartesian(v, sin, cos) ==
    << RoundDiv(v[3] * sin - v[1] * cos, Scale),
       v[2],
       RoundDiv(v[1] * sin + v[3] * cos, Scale) >>

\* The sign of the float y_o = sin(theta_i) * sin(phi_i) / norm where the
\* fixed-point y_o is 0: math.sin(0) is 0.0, math.sin(math.pi) is 1.2e-16 and
\* math.sin(2 * math.pi) is -2.4e-16.
SignOfY(y_o, theta_i, phi_i) ==
    IF y_o > 0 THEN 1
    ELSE IF y_o < 0 THEN -1
    ELSE IF theta_i = 0 \/ phi_i = 0 THEN 0
    ELSE IF phi_i <= Deg(180) THEN 1 ELSE -1

\* phi_o of lines 108-119; atan2 is abs(math.atan2(y_o, x_o)) in millidegrees
\* and sign_y the sign of y_o.  The three tests of the first branch are made
\* in the order == 0, > 0, < 0 and the last one that holds decides.
NormalPhi(x_o, y_o, sign_y, phi_i, atan2) ==
    IF RoundHalfEven(x_o, Scale \div 100) = 0                  \* round(x_o, 2) == 0
    THEN IF sign_y < 0 THEN Deg(90)
         ELSE IF sign_y > 0 THEN Deg(270)
         ELSE phi_i                                           \* round(y_o, 0) == 0
    ELSE IF RoundHalfEven(y_o, Scale \div 1000) > 0            \* round(y_o, 3) > 0
    THEN Deg(360) - atan2
    ELSE atan2

\* round(theta_o, 2), round(phi_o, 2)
NormalAngles(v, theta_i, phi_i) ==
    << RoundHalfEven(Acos(v[3]), 10),
       RoundHalfEven(NormalPhi(v[1], v[2], SignOfY(v[2], theta_i, phi_i), phi_i,
                               Abs(Atan2(v[2], v[1]))), 10) >>

\* convert_specular_to_normal_using_cartesian: <<theta_o, phi_o>>.
convert_specular_to_normal_using_cartesian(theta_i, phi_i, angle_inc) ==
    NormalAngles(Normalized(
        ToNormalCartesian(Cartesian(theta_i, phi_i), Sin(angle_inc), Cos(angle_inc))),
        theta_i, phi_i)

-----------------------------------------------------------------------------
(***************************************************************************)
(* State.  One conversion job runs at a time: a caller invokes one of the  *)
(* two entry points with an input file.                                    *)
(***************************************************************************)
VARIABLES
    pc,         \* position of the job in the entry point and its callees
    entry,      \* "convert_zemax_to_speos_bsdf" or "convert_speos_to_zemax_bsdf"
    file,       \* the input file: its path, extension and parsed content
    loc,        \* the locals of the entry point; loc.frame: those of its callee
    handles,    \* the file handles that are open
    linesRead,  \* number of lines read so far from the input file
    fs,         \* the files written so far: output path -> content
    err         \* the exception that ended the job, "none" while there is none

vars == <<pc, entry, file, loc, handles, linesRead, fs, err>>

None == "None"

(***************************************************************************)
(* Input files.  Angles are written in degrees in the files; the model     *)
(* holds them in millidegrees.  The values of a block follow a pattern     *)
(* that makes every sample of every block recognisable.                    *)
(***************************************************************************)
MaxAngleIncidence == 2      \* a file carries 1..MaxAngleIncidence incidence angles
MaxWavelength == 2          \* a Speos file carries 1..MaxWavelength wavelengths

IncidenceAngles == <<Deg(0), Deg(30), Deg(60), Deg(45), Deg(10)>>
Wavelengths == <<450, 550, 650, 750>>          \* nanometres
FirstN(s, n) == Arr(SubSeq(s, 1, n))

BlockPatterns == {"uniform", "spike", "ramp", "zero"}

\* The sample of block number b at azimuth index a and radial index r.
Pattern(p, b, a, r) ==
    CASE p = "uniform" -> Unit
      [] p = "spike"   -> IF r = 0 THEN 2 * Unit ELSE 0
      [] p = "ramp"    -> 100 * (1 + r + 3 * a + 11 * b)
      [] OTHER         -> 0

RadialAxes == { Arr(<<Deg(0), Deg(90)>>), Arr(<<Deg(0), Deg(45), Deg(90)>>) }

AzimuthAxes(sym) ==
    IF sym = "PlaneSymmetrical"
    THEN { Arr(<<Deg(0), Deg(90), Deg(180)>>) }
    ELSE { Arr(<<Deg(0), Deg(180), Deg(360)>>),
           Arr(<<Deg(0), Deg(90), Deg(180), Deg(270)>>) }

\* A Zemax file whose header and data section agree.
ZemaxFile(st, sym, nInc, az, rad, pat, tis0) ==
    [ kind             |-> "zemax",
      stem             |-> "Sample",
      path             |-> "Sample.bsdf",
      scatterType      |-> st,
      symmetry         |-> sym,
      nbSampleRotation |-> 1,
      sampleRotation   |-> Arr(<<Deg(0)>>),
      nbAngleIncidence |-> nInc,
      angleIncidence   |-> FirstN(IncidenceAngles, nInc),
      nbScatterAzimuth |-> len(az),
      scatterAzimuth   |-> az,
      nbScatterRadial  |-> len(rad),
      scatterRadial    |-> rad,
      \* the data section: blocks x (one TIS line, azimuth rows of radial values)
      dataBlocks       |-> nInc,
      dataAzimuth      |-> len(az),
      dataRadial       |-> len(rad),
      pattern          |-> pat,
      tis0             |-> tis0 ]

\* The TIS line and the samples of block number b of a file's data section.
FileTIS(f, b) == f.tis0 + 100 * b
FileSample(f, b, a, r) == Pattern(f.pattern, b, a, r)

WellFormedZemaxFiles ==
    { ZemaxFile(st, sym, nInc, az, rad, pat, tis0) :
        st \in {"BRDF", "BTDF"}, sym \in {"PlaneSymmetrical"},
        nInc \in 1..MaxAngleIncidence, az \in AzimuthAxes("PlaneSymmetrical"),
        rad \in RadialAxes, pat \in BlockPatterns, tis0 \in {500} }
    \cup
    { ZemaxFile(st, sym, nInc, az, rad, pat, tis0) :
        st \in {"BRDF", "BTDF"}, sym \in {"Asymmetrical4D"},
        nInc \in 1..MaxAngleIncidence, az \in AzimuthAxes("Asymmetrical4D"),
        rad \in RadialAxes, pat \in BlockPatterns, tis0 \in {500} }

ZemaxAxisNames == {"sampleRotation", "angleIncidence", "scatterAzimuth", "scatterRadial"}
CountName(ax) ==
    CASE ax = "sampleRotation" -> "nbSampleRotation"
      [] ax = "angleIncidence" -> "nbAngleIncidence"
      [] ax = "scatterAzimuth" -> "nbScatterAzimuth"
      [] OTHER                 -> "nbScatterRadial"

\* A Zemax file in which the count declared for one axis differs by d from the
\* number of values on the values line.  The data section follows either the
\* declared counts or the values lines.
MismatchedZemaxFile(f, ax, d, follows) ==
    LET g == [f EXCEPT ![CountName(ax)] = len(f[ax]) + d]
    IN  IF follows = "tokens" THEN g
        ELSE [g EXCEPT !.dataBlocks  = g.nbSampleRotation * g.nbAngleIncidence,
                       !.dataAzimuth = g.nbScatterAzimuth,
                       !.dataRadial  = g.nbScatterRadial]

MismatchBase ==
    ZemaxFile("BRDF", "Asymmetrical4D", 1, Arr(<<Deg(0), Deg(180), Deg(360)>>),
              Arr(<<Deg(0), Deg(90)>>), "uniform", 500)

MismatchedZemaxFiles ==
    { MismatchedZemaxFile(MismatchBase, ax, d, follows) :
        ax \in ZemaxAxisNames, d \in {-1, 1}, follows \in {"tokens", "declared"} }

ZemaxFiles == WellFormedZemaxFiles \cup MismatchedZemaxFiles


\* A Speos file whose header and data section agree.  version is the number
\* of the token vX.Y in tenths; reflection and transmission are the two
\* tokens of row 6; every block uses the same two axes.
SpeosFile(ext, version, textorbinary, reflection, transmission, nInc, nWl, az, rad, pat) ==
    [ kind             |-> "speos",
      stem             |-> "Sample",
      ext              |-> ext,
      path             |-> "Sample." \o ext,
      version          |-> version,
      textorbinary     |-> textorbinary,
      reflection       |-> reflection,
      transmission     |-> transmission,
      nbAngleIncidence |-> nInc,
      nbWavelength     |-> nWl,
      angleIncidence   |-> FirstN(IncidenceAngles, nInc),
      wavelength       |-> FirstN(Wavelengths, nWl),
      scatterAzimuth   |-> az,
      scatterRadial    |-> rad,
      pattern          |-> pat,
      tis0             |-> 30 * Unit ]              \* TIS in percent

SpeosAzimuthAxes ==
    { Arr(<<Deg(0), Deg(180), Deg(360)>>), Arr(<<Deg(0), Deg(90), Deg(180), Deg(270)>>) }

SpeosFiles ==
    \* files the reader accepts
    { SpeosFile("brdf", 80, "1", fl[1], fl[2], nInc, nWl, az, rad, pat) :
        fl \in {<<"1", "0">>, <<"0", "1">>, <<"1", "1">>},
        nInc \in 1..MaxAngleIncidence, nWl \in 1..MaxWavelength,
        az \in SpeosAzimuthAxes, rad \in RadialAxes, pat \in {"ramp", "spike"} }
    \cup
    \* other versions, the other value of the text/binary flag, no flag set,
    \* the other extension
    { SpeosFile(ext, version, tb, fl[1], fl[2], 1, 1,
                Arr(<<Deg(0), Deg(180), Deg(360)>>), Arr(<<Deg(0), Deg(90)>>), "ramp") :
        ext \in {"brdf", "anisotropicbsdf"}, version \in {70, 79, 80, 81},
        tb \in {"0", "1"},
        fl \in {<<"1", "0">>, <<"1", "1">>, <<"0", "0">>} }

-----------------------------------------------------------------------------
(***************************************************************************)
(* Exceptions end the job: nothing in the module catches one.              *)
(***************************************************************************)
Raise(e) ==
    /\ pc' = "raised"
    /\ err' = e

Ended == pc \in {"done", "raised"}

-----------------------------------------------------------------------------
(***************************************************************************)
(* read_zemax_bsdf                                                         *)
(***************************************************************************)
ZemaxFrame0 ==
    [ fn               |-> "read_zemax_bsdf",
      scatterType      |-> Unbound, symmetry         |-> Unbound,
      nbSampleRotation |-> Unbound, sampleRotation   |-> Unbound,
      nbAngleIncidence |-> Unbound, angleIncidence   |-> Unbound,
      nbScatterAzimuth |-> Unbound, scatterAzimuth   |-> Unbound,
      nbScatterRadial  |-> Unbound, scatterRadial    |-> Unbound,
      tisData          |-> Unbound, bsdfData         |-> Unbound,
      assigned         |-> {},          \* the names of the locals assigned so far
      warnings         |-> {} ]

\* bfile = open(inputFilepath, "r")
ReadZemaxOpen ==
    /\ pc = "call"
    /\ entry = "convert_zemax_to_speos_bsdf"
    /\ handles' = handles \cup {file.path}
    /\ loc' = [loc EXCEPT !.frame = ZemaxFrame0]
    /\ pc' = "read_zemax.header"
    /\ UNCHANGED <<entry, file, linesRead, fs, err>>

\* The Source, Symmetry, SpectralContent and ScatterType lines.
ReadZemaxHeader ==
    /\ pc = "read_zemax.header"
    /\ loc' = [loc EXCEPT !.frame.symmetry = file.symmetry,
                          !.frame.scatterType = file.scatterType,
                          !.frame.assigned = @ \cup {"symmetry", "scatterType"}]
    /\ linesRead' = linesRead + 4
    /\ pc' = "read_zemax.sampleRotation"
    /\ UNCHANGED <<entry, file, handles, fs, err>>

AfterAxis(ax) ==
    CASE ax = "sampleRotation" -> "read_zemax.angleIncidence"
      [] ax = "angleIncidence" -> "read_zemax.scatterAzimuth"
      [] ax = "scatterAzimuth" -> "read_zemax.scatterRadial"
      [] OTHER                 -> "read_zemax.data"

\* A label line stating a count, then the values line.  When the number of
\* values differs from the count the program prints a warning and leaves the
\* axis variable unassigned (the assignment is in the else branch).
ReadZemaxAxis(ax) ==
    /\ pc = "read_zemax." \o ax
    /\ LET declared == file[CountName(ax)]
           tokens   == file[ax]
       IN  loc' = IF len(tokens) # declared
                  THEN [loc EXCEPT !.frame[CountName(ax)] = declared,
                                   !.frame.assigned = @ \cup {CountName(ax)},
                                   !.frame.warnings = @ \cup {ax}]
                  ELSE [loc EXCEPT !.frame[CountName(ax)] = declared,
                                   !.frame[ax] = tokens,
                                   !.frame.assigned = @ \cup {CountName(ax), ax}]
    /\ linesRead' = linesRead + 2
    /\ pc' = AfterAxis(ax)
    /\ UNCHANGED <<entry, file, handles, fs, err>>

\* Whether the data section can be read with the declared counts: every row
\* must hold nbScatterRadial values (numpy refuses a row of another length),
\* every block nbScatterAzimuth rows (a missing row makes the TIS line or
\* DataEnd be read as a row; an extra row is read as the next TIS line), and
\* there must be a block for every (rotation, incidence) pair.
ZemaxDataReadable(fr) ==
    LET blocks == fr.nbSampleRotation * fr.nbAngleIncidence
    IN  \/ blocks = 0
        \/ /\ file.dataRadial = fr.nbScatterRadial
           /\ file.dataBlocks >= blocks
           /\ \/ file.dataAzimuth = fr.nbScatterAzimuth
              \/ file.dataAzimuth > fr.nbScatterAzimuth /\ blocks = 1

\* Skip to DataBegin, then for every (rotation, incidence): the TIS line and
\* nbScatterAzimuth rows.
ReadZemaxData ==
    /\ pc = "read_zemax.data"
    /\ LET fr == loc.frame
       IN  IF ZemaxDataReadable(fr)
           THEN /\ loc' = [loc EXCEPT
                     !.frame.assigned = @ \cup {"tisData", "bsdfData"},
                     !.frame.tisData =
                         [i \in 0..(fr.nbSampleRotation - 1) |->
                            [j \in 0..(fr.nbAngleIncidence - 1) |->
                               FileTIS(file, i * fr.nbAngleIncidence + j)]],
                     !.frame.bsdfData =
                         [i \in 0..(fr.nbSampleRotation - 1) |->
                            [j \in 0..(fr.nbAngleIncidence - 1) |->
                               [k \in 0..(fr.nbScatterAzimuth - 1) |->
                                  [r \in 0..(fr.nbScatterRadial - 1) |->
                                     FileSample(file, i * fr.nbAngleIncidence + j, k, r)]]]]]
                /\ linesRead' = linesRead + 1
                       + fr.nbSampleRotation * fr.nbAngleIncidence * (1 + fr.nbScatterAzimuth)
                /\ pc' = "read_zemax.return"
                /\ err' = err
           ELSE /\ Raise("ValueError")
                /\ UNCHANGED <<loc, linesRead>>
    /\ UNCHANGED <<entry, file, handles, fs>>

ZemaxReturned ==
    {"scatterType", "symmetry", "nbSampleRotation", "nbAngleIncidence", "nbScatterAzimuth",
     "nbScatterRadial", "angleIncidence", "sampleRotation", "scatterRadial", "scatterAzimuth",
     "tisData", "bsdfData"}

\* The return statement names the four axis variables: one that was never
\* assigned raises UnboundLocalError.  The handle bfile is not closed.
ReadZemaxReturn ==
    /\ pc = "read_zemax.return"
    /\ IF ZemaxReturned \ loc.frame.assigned # {}
       THEN /\ Raise("UnboundLocalError")
            /\ loc' = loc
       ELSE /\ loc' = [v \in DOMAIN loc |->
                         IF v \in ZemaxReturned THEN loc.frame[v]
                         ELSE IF v = "frame" THEN None ELSE loc[v]]
            /\ pc' = "precision"
            /\ err' = err
    /\ UNCHANGED <<entry, file, handles, linesRead, fs>>

-----------------------------------------------------------------------------
(***************************************************************************)
(* phi_theta_recommended_precision, round_to_multiple                      *)
(***************************************************************************)
\* round(num / den, 1), in tenths.
Round1(num, den) == RoundDiv(10 * num, den)

\* A rounding down to the multiple, against which C13 is tried.
round_to_multipleMutant(number) == 5 * (number \div 5)

\* round_to_multiple(number, 0.5), number and result in tenths.
round_to_multiple(number) == RoundHalfEven(number, 5)

\* <<precisionTheta, precisionPhi>> in millidegrees, or the exception raised.
phi_theta_recommended_precision(scatterRadial, scatterAzimuth, symmetry) ==
    LET nbTheta_max == 1000
        theta_max   == 90
        phi_max     == IF symmetry = "PlaneSymmetrical" THEN 180 ELSE 360
        nbPhi_max   == IF symmetry = "PlaneSymmetrical" THEN 500 ELSE 1000
        precisionTheta ==
            IF len(scatterRadial) > nbTheta_max
            THEN Round1(theta_max, nbTheta_max - 1)
            ELSE Round1(theta_max, len(scatterRadial) - 1)
        precisionPhi ==
            IF len(scatterAzimuth) > nbTheta_max
            THEN Round1(phi_max, nbPhi_max - 1)
            ELSE Round1(phi_max, len(scatterAzimuth) - 1)
    IN  IF len(scatterRadial) <= 1 \/ len(scatterAzimuth) <= 1
        THEN [err |-> "ZeroDivisionError"]
        ELSE [err |-> "none",
              precisionTheta |-> 100 * round_to_multiple(precisionTheta),
              precisionPhi   |-> 100 * round_to_multiple(precisionPhi)]

-----------------------------------------------------------------------------
(***************************************************************************)
(* convert_zemax_speos_bsdf_data                                           *)
(***************************************************************************)
RECURSIVE bisect_left(_, _, _, _)
\* bisect.bisect_left(a, x): called with lo = 0 and hi = len(a).
bisect_left(a, x, lo, hi) ==
    IF lo < hi
    THEN LET mid == (lo + hi) \div 2
         IN  IF a[mid] < x THEN bisect_left(a, x, mid + 1, hi)
             ELSE bisect_left(a, x, lo, mid)
    ELSE lo

\* The transform of a target cell's angles into the source frame.
NewAngles(bool_speos_brdf, currentTheta, currentPhi, currentSampleRot, currentAngleInc) ==
    IF bool_speos_brdf = 1
    THEN convert_specular_to_normal_using_cartesian(currentTheta, currentPhi, currentSampleRot)
    ELSE convert_normal_to_specular_using_cartesian(currentTheta, currentPhi, currentAngleInc)

\* A range test that lets the lower hemisphere through, against which C8 is tried.
OutOfRangeMutant(newTheta) == newTheta > Deg(180) \/ newTheta < 0

\* if newTheta > 90 or newTheta < 0
OutOfRange(newTheta) == newTheta > Deg(90) \/ newTheta < 0

\* A folding that ignores the symmetry, against which C24 is tried.
FoldPhiMutant(symmetry, newPhi) ==
    IF newPhi > Deg(180) THEN Deg(360) - newPhi ELSE newPhi

\* if symmetry == "PlaneSymmetrical" and newPhi > 180: newPhi = 360 - newPhi
FoldPhi(symmetry, newPhi) ==
    IF symmetry = "PlaneSymmetrical" /\ newPhi > Deg(180) THEN Deg(360) - newPhi ELSE newPhi

\* The bracket of newTheta on the radial axis: indexInfTheta, indexSupTheta
\* and coeffTheta (in 1/Unit).
ThetaBracketAt(scatterRadial, newTheta, indexInfTheta) ==
    IF indexInfTheta = 0
    THEN [inf |-> indexInfTheta, sup |-> indexInfTheta, coeff |-> 0]
    ELSE IF indexInfTheta <= len(scatterRadial) - 1
    THEN [inf |-> indexInfTheta - 1, sup |-> indexInfTheta,
          coeff |-> RoundDiv((newTheta - scatterRadial[indexInfTheta - 1]) * Unit,
                             scatterRadial[indexInfTheta] - scatterRadial[indexInfTheta - 1])]
    ELSE [inf |-> indexInfTheta - 1, sup |-> indexInfTheta - 1, coeff |-> 0]

ThetaBracket(scatterRadial, newTheta) ==
    ThetaBracketAt(scatterRadial, newTheta,
                   bisect_left(scatterRadial, newTheta, 0, len(scatterRadial)))

\* The bracket of newPhi on the azimuth axis.  In the last branch the program
\* sets indexSupPhi = indexInfPhi + 1 after decrementing indexInfPhi.
PhiBracketAt(scatterAzimuth, newPhi, indexInfPhi) ==
    IF indexInfPhi = 0
    THEN [inf |-> indexInfPhi, sup |-> indexInfPhi, coeff |-> 0]
    ELSE IF indexInfPhi <= len(scatterAzimuth) - 1
    THEN [inf |-> indexInfPhi - 1, sup |-> indexInfPhi,
          coeff |-> RoundDiv((newPhi - scatterAzimuth[indexInfPhi - 1]) * Unit,
                             scatterAzimuth[indexInfPhi] - scatterAzimuth[indexInfPhi - 1])]
    ELSE [inf |-> indexInfPhi - 1, sup |-> (indexInfPhi - 1) + 1, coeff |-> 0]

PhiBracket(scatterAzimuth, newPhi) ==
    PhiBracketAt(scatterAzimuth, newPhi,
                 bisect_left(scatterAzimuth, newPhi, 0, len(scatterAzimuth)))

\* An interpolation with the two theta weights exchanged, against which C10
\* is tried.
InterpolateMutant(bsdf1, bsdf2, bsdf3, bsdf4, coeffTheta, coeffPhi) ==
    RoundDiv(RoundDiv(bsdf1 * coeffTheta + bsdf2 * (Unit - coeffTheta), Unit) * (Unit - coeffPhi)
             + RoundDiv(bsdf3 * coeffTheta + bsdf4 * (Unit - coeffTheta), Unit) * coeffPhi, Unit)

\* Linear interpolation along theta, then along phi.
Interpolate(bsdf1, bsdf2, bsdf3, bsdf4, coeffTheta, coeffPhi) ==
    LET bsdfN1 == RoundDiv(bsdf1 * (Unit - coeffTheta) + bsdf2 * coeffTheta, Unit)
        bsdfN2 == RoundDiv(bsdf3 * (Unit - coeffTheta) + bsdf4 * coeffTheta, Unit)
    IN  RoundDiv(bsdfN1 * (Unit - coeffPhi) + bsdfN2 * coeffPhi, Unit)

\* The source axes and block of the slice being resampled.
SourceRadial(fr) == IF fr.bool_speos_brdf = 1 THEN fr.scatterRadial[fr.index] ELSE fr.scatterRadial
SourceAzimuth(fr) == IF fr.bool_speos_brdf = 1 THEN fr.scatterAzimuth[fr.index] ELSE fr.scatterAzimuth

\* A choice of the block by the outer loop counter alone, against which C26 is
\* tried.
SourceBlockMutant(fr) ==
    IF fr.bool_speos_brdf = 0 THEN fr.bsdfData[fr.i][fr.j] ELSE fr.bsdfData[fr.i]

SourceBlock(fr) == IF fr.bool_speos_brdf = 0 THEN fr.bsdfData[fr.i][fr.j] ELSE fr.bsdfData[fr.index]

\* Lines 833-890 for a direction that is in range: the fold, the two
\* brackets, the four samples and their interpolation.  Reading the block at
\* an index it does not have raises IndexError.
CellLookup(newTheta, newPhi, tb, pb, block) ==
    [ newTheta |-> newTheta, newPhi |-> newPhi, lookup |-> TRUE,
      indexInfTheta |-> tb.inf, indexSupTheta |-> tb.sup, coeffTheta |-> tb.coeff,
      indexInfPhi |-> pb.inf, indexSupPhi |-> pb.sup, coeffPhi |-> pb.coeff,
      exc |-> IF /\ {pb.inf, pb.sup} \subseteq DOMAIN block
                 /\ {tb.inf, tb.sup} \subseteq DOMAIN block[0]
              THEN "none" ELSE "IndexError",
      bsdfValue |-> IF /\ {pb.inf, pb.sup} \subseteq DOMAIN block
                       /\ {tb.inf, tb.sup} \subseteq DOMAIN block[0]
                    THEN Interpolate(block[pb.inf][tb.inf], block[pb.inf][tb.sup],
                                     block[pb.sup][tb.inf], block[pb.sup][tb.sup],
                                     tb.coeff, pb.coeff)
                    ELSE None ]

\* read_speos_bsdf returns scatterRadial as a list of numpy arrays, one per
\* block; read_zemax_bsdf returns it as one list of floats.
AxisIsListOfArrays == entry = "convert_speos_to_zemax_bsdf"

\* bisect.bisect_left(scatterRadial, newTheta) on a list of arrays compares an
\* array with a float and asks for the truth value of the result: "ValueError:
\* The truth value of an array with more than one element is ambiguous".
TruthValueError == "ValueError (bisect_left)"

\* Lines 829-890 for the transformed direction new = <<newTheta, newPhi>>.
CellFromAngles(fr, new) ==
    [assigned |-> TRUE, i |-> fr.i, j |-> fr.j, k |-> fr.k, l |-> fr.l, index |-> fr.index]
    @@
    IF OutOfRange(new[1])
    THEN [newTheta |-> new[1], newPhi |-> new[2], lookup |-> FALSE, exc |-> "none"]
    ELSE IF fr.bool_speos_brdf # 1 /\ AxisIsListOfArrays
    THEN [newTheta |-> new[1], newPhi |-> FoldPhi(fr.symmetry, new[2]), lookup |-> FALSE,
          exc |-> TruthValueError]
    ELSE CellLookup(new[1], FoldPhi(fr.symmetry, new[2]),
                    ThetaBracket(SourceRadial(fr), new[1]),
                    PhiBracket(SourceAzimuth(fr), FoldPhi(fr.symmetry, new[2])),
                    SourceBlock(fr))

\* The body of the innermost loop for the cell (i, j, k, l) of frame fr: the
\* locals it assigns, and the value it stores or the exception it raises.
ResampleCellLocals(fr) ==
    CellFromAngles(fr, NewAngles(fr.bool_speos_brdf,
                                 fr.k * fr.precisionTheta,            \* currentTheta
                                 fr.l * fr.precisionPhi,              \* currentPhi
                                 fr.sampleRotation[fr.i % fr.nbSampleRotation],
                                 fr.angleIncidence[fr.j]))

Zeros4(n1, n2, n3, n4) ==
    [a \in 0..(n1 - 1) |-> [b \in 0..(n2 - 1) |-> [c \in 0..(n3 - 1) |-> [d \in 0..(n4 - 1) |-> 0]]]]

\* The arguments each entry point passes.
ResampleArgs ==
    IF entry = "convert_zemax_to_speos_bsdf"
    THEN [ nb_reflection_transmission |-> 1,
           symmetry         |-> loc.symmetry,
           scatterType      |-> loc.scatterType,
           nbSampleRotation |-> loc.nbSampleRotation,
           nbAngleIncidence |-> loc.nbAngleIncidence,
           sampleRotation   |-> loc.sampleRotation,
           angleIncidence   |-> loc.angleIncidence,
           scatterRadial    |-> loc.scatterRadial,
           scatterAzimuth   |-> loc.scatterAzimuth,
           bsdfData         |-> loc.bsdfData,
           precisionTheta   |-> loc.precisionTheta,
           precisionPhi     |-> loc.precisionPhi,
           bool_speos_brdf  |-> 0 ]
    ELSE [ nb_reflection_transmission |-> loc.nb_reflection_transmission,
           symmetry         |-> loc.symmetry,
           scatterType      |-> loc.scatterType,
           nbSampleRotation |-> loc.nbAngleIncidence,
           nbAngleIncidence |-> loc.nbWavelength,
           sampleRotation   |-> loc.angleIncidence,
           angleIncidence   |-> [j \in DOMAIN loc.wavelength |-> Deg(loc.wavelength[j])],
           scatterRadial    |-> loc.scatterRadial,
           scatterAzimuth   |-> loc.scatterAzimuth,
           bsdfData         |-> loc.bsdfData,
           precisionTheta   |-> loc.precisionTheta,
           precisionPhi     |-> loc.precisionPhi,
           bool_speos_brdf  |-> loc.bool_speos_brdf ]

\* Lines 794-808: the grid sizes and the two zero-filled arrays.
ResampleCall ==
    /\ pc = "resample.call"
    /\ LET a == ResampleArgs
       IN  IF a.precisionTheta = 0 \/ a.precisionPhi = 0
           THEN /\ Raise("ZeroDivisionError")
                /\ loc' = loc
           ELSE LET nbTheta == (Deg(90) \div a.precisionTheta) + 1
                    nbPhi   == (Deg(360) \div a.precisionPhi) + 1
                    n1      == a.nb_reflection_transmission * a.nbSampleRotation
                    z       == Zeros4(n1, a.nbAngleIncidence, nbTheta, nbPhi)
                IN  /\ loc' = [loc EXCEPT !.frame =
                                 a @@ [ fn |-> "convert_zemax_speos_bsdf_data",
                                        nbTheta |-> nbTheta, nbPhi |-> nbPhi,
                                        temp_bsdfData |-> z, bsdfDataSpeos |-> z,
                                        index |-> 0, i |-> 0, j |-> 0, k |-> 0, l |-> 0,
                                        cell |-> [assigned |-> FALSE] ]]
                    /\ pc' = IF n1 = 0 \/ a.nbAngleIncidence = 0
                             THEN "resample.end" ELSE "resample.cell"
                    /\ err' = err
    /\ UNCHANGED <<entry, file, handles, linesRead, fs>>

\* The loop counters after the cell (i, j, k, l); index grows after each j.
NextCell(fr) ==
    IF fr.l + 1 < fr.nbPhi THEN [fr EXCEPT !.l = @ + 1]
    ELSE IF fr.k + 1 < fr.nbTheta THEN [fr EXCEPT !.k = @ + 1, !.l = 0]
    ELSE IF fr.j + 1 < fr.nbAngleIncidence
    THEN [fr EXCEPT !.j = @ + 1, !.k = 0, !.l = 0, !.index = @ + 1]
    ELSE [fr EXCEPT !.i = @ + 1, !.j = 0, !.k = 0, !.l = 0, !.index = @ + 1]

\* One pass of the innermost loop (lines 815-890).
\* The frame once the cell's value is stored: temp_bsdfData[i][j][k][l] takes
\* the interpolated value, or bsdfDataSpeos[i][j][k][l] takes 0.
StoreCell(fr, c) ==
    IF c.lookup
    THEN [fr EXCEPT !.temp_bsdfData[fr.i][fr.j][fr.k][fr.l] = c.bsdfValue, !.cell = c]
    ELSE [fr EXCEPT !.bsdfDataSpeos[fr.i][fr.j][fr.k][fr.l] = 0, !.cell = c]

ResampleStep(fr, c) ==
    IF c.exc # "none"
    THEN /\ Raise(c.exc)
         /\ loc' = [loc EXCEPT !.frame.cell = c]
    ELSE /\ loc' = [loc EXCEPT !.frame = NextCell(StoreCell(fr, c))]
         /\ pc' = IF NextCell(fr).i < fr.nb_reflection_transmission * fr.nbSampleRotation
                  THEN "resample.cell" ELSE "resample.end"
         /\ err' = err

ResampleCell ==
    /\ pc = "resample.cell"
    /\ ResampleStep(loc.frame, ResampleCellLocals(loc.frame))
    /\ UNCHANGED <<entry, file, handles, linesRead, fs>>

\* A return that shifts the theta axis of a BTDF file and leaves the rows in
\* place, against which C27 is tried.
ResampleResultMutant(fr) ==
    [ bsdfDataSpeos |-> fr.temp_bsdfData,
      line_theta    |-> [k \in 0..(fr.nbTheta - 1) |->
                           (IF fr.bool_speos_brdf = 1 \/ fr.scatterType = "BRDF"
                            THEN 0 ELSE Deg(90)) + fr.precisionTheta * k],
      line_phi      |-> [x \in 0..(fr.nbPhi - 1) |-> fr.precisionPhi * x] ]

\* Lines 897-910: what the function returns.
ResampleResult(fr) ==
    IF fr.bool_speos_brdf = 1 \/ fr.scatterType = "BRDF"
    THEN [ bsdfDataSpeos |-> fr.temp_bsdfData,
           line_theta    |-> [k \in 0..(fr.nbTheta - 1) |-> fr.precisionTheta * k],
           line_phi      |-> [x \in 0..(fr.nbPhi - 1) |-> fr.precisionPhi * x] ]
    ELSE [ bsdfDataSpeos |->
               [i \in DOMAIN fr.bsdfDataSpeos |->
                  IF i < fr.nbSampleRotation
                  THEN [j \in 0..(fr.nbAngleIncidence - 1) |->
                          [k \in 0..(fr.nbTheta - 1) |->
                             fr.temp_bsdfData[i][j][fr.nbTheta - 1 - k]]]
                  ELSE fr.bsdfDataSpeos[i]],
           line_theta    |-> [k \in 0..(fr.nbTheta - 1) |-> Deg(90) + fr.precisionTheta * k],
           line_phi      |-> [x \in 0..(fr.nbPhi - 1) |-> fr.precisionPhi * x] ]

ResampleEnd ==
    /\ pc = "resample.end"
    /\ LET r == ResampleResult(loc.frame)
       IN  IF entry = "convert_zemax_to_speos_bsdf"
           THEN /\ loc' = [loc EXCEPT !.bsdfDataSpeos = r.bsdfDataSpeos,
                                      !.line_theta = r.line_theta,
                                      !.line_phi = r.line_phi,
                                      !.frame = None]
                /\ pc' = "normalize.call"
           ELSE /\ loc' = [loc EXCEPT !.bsdfDataZemax = r.bsdfDataSpeos,
                                      !.line_theta = r.line_theta,
                                      !.line_phi = r.line_phi,
                                      !.index_wavelength = 0,
                                      !.index_RT = 0,
                                      !.frame = None]
                /\ pc' = "write_zemax"
    /\ UNCHANGED <<entry, file, handles, linesRead, fs, err>>

-----------------------------------------------------------------------------
(***************************************************************************)
(* normalize_bsdf_data                                                     *)
(*                                                                         *)
(* interp2d(kind="linear") is the piecewise-bilinear interpolant of the    *)
(* samples, and nquad integrates it over the rectangle the axes span: the  *)
(* model takes the exact integral of that interpolant, the trapezoid sum   *)
(* over the grid cells.  The tolerance epsabs of nquad is not modelled.    *)
(***************************************************************************)
\* The largest factor the fixed-point model represents (100.0).
MaxFactor == 100 * Unit

\* np.sin(theta_rad) * np.cos(theta_rad), in 1/Scale.
SinCos(theta) == RoundDiv(Sin(theta) * Cos(theta), Scale)

\* One sample of integrande without its factor 1/pi, in 1/Unit.
Integrande(value, theta) == RoundDiv(value * SinCos(theta), Scale)

\* Whether the float sample is exactly 0.0.  math.sin(0) is 0.0; at every
\* other grid angle the float product sin * cos is not zero (math.cos(pi / 2)
\* is 6.1e-17 and math.sin(pi) is 1.2e-16).
IntegrandeIsZero(value, theta) == value = 0 \/ theta = 0

\* (1 / pi) * dtheta * dphi / 4 in radians, in 1/Scale, of a grid cell whose
\* sides are given in millidegrees.
CellWeight(dtheta, dphi) ==
    RoundDiv(RoundDiv((dtheta \div 100) * (dphi \div 100), 10) * 2424, 100000)

RECURSIVE SumFirst(_, _)
\* a[0] + ... + a[n - 1]
SumFirst(a, n) == IF n <= 0 THEN 0 ELSE a[n - 1] + SumFirst(a, n - 1)

\* abs(r[0]) of the nquad call for the block (indexed [theta][phi]), in
\* 1/Unit.  A float integral that is not zero but lies below the resolution
\* of the model is kept as the smallest positive number.
IntegralValue(block, line_theta, line_phi) ==
    LET nT == len(line_theta)
        nP == len(line_phi)
        g(k, l) == Integrande(block[k][l], line_theta[k])
        cell(c) == LET k == c \div (nP - 1)
                       l == c % (nP - 1)
                   IN  RoundDiv(CellWeight(line_theta[k + 1] - line_theta[k],
                                           line_phi[l + 1] - line_phi[l])
                                * (g(k, l) + g(k + 1, l) + g(k, l + 1) + g(k + 1, l + 1)),
                                Scale)
        cells == (nT - 1) * (nP - 1)
        total == Abs(SumFirst([c \in 0..(cells - 1) |-> cell(c)], cells))
        allZero == \A k \in 0..(nT - 1), l \in 0..(nP - 1) :
                      IntegrandeIsZero(block[k][l], line_theta[k])
    IN  IF total > 0 THEN total ELSE IF allZero THEN 0 ELSE 1

\* A normalization that takes the TIS itself as the factor, against which C22
\* is tried.
NormalizationFactorMutant(tis, integral, before) ==
    IF integral > 0 THEN Min2(tis, MaxFactor) ELSE before

\* Lines 977-981.  normalizationBsdf is created by np.zeros; the else branch
\* holds the comparison "normalizationBsdf[i][j] == 1", which assigns nothing.
NormalizationFactor(tis, integral, before) ==
    IF integral > 0
    THEN Min2(RoundDiv(tis * Unit, integral), MaxFactor)
    ELSE before

\* bsdfData[i, j, :, :] * normalizationBsdf[i][j]
ScaleBlock(block, factor) ==
    [k \in DOMAIN block |-> [l \in DOMAIN block[k] |-> RoundDiv(block[k][l] * factor, Unit)]]

NormalizeCall ==
    /\ pc = "normalize.call"
    /\ loc' = [loc EXCEPT !.frame =
                 [ fn |-> "normalize_bsdf_data",
                   nbSampleRotation |-> loc.nbSampleRotation,
                   nbAngleIncidence |-> loc.nbAngleIncidence,
                   line_theta |-> loc.line_theta,
                   line_phi   |-> loc.line_phi,
                   tisData    |-> loc.tisData,
                   bsdfData   |-> loc.bsdfDataSpeos,
                   normalizationBsdf |->
                       [i \in 0..(loc.nbSampleRotation - 1) |->
                          [j \in 0..(loc.nbAngleIncidence - 1) |-> 0]],
                   IntegralValue |-> Unbound,
                   i |-> 0, j |-> 0 ]]
    /\ pc' = IF loc.nbSampleRotation = 0 \/ loc.nbAngleIncidence = 0
             THEN "normalize.return" ELSE "normalize.slice"
    /\ UNCHANGED <<entry, file, handles, linesRead, fs, err>>

\* One pass of the loop body (lines 953-998) for the slice (i, j).
NormalizeSlice ==
    /\ pc = "normalize.slice"
    /\ LET fr == loc.frame
           i  == fr.i
           j  == fr.j
           integral == IntegralValue(fr.bsdfData[i][j], fr.line_theta, fr.line_phi)
           factor   == NormalizationFactor(fr.tisData[i][j], integral,
                                           fr.normalizationBsdf[i][j])
           last     == j + 1 = fr.nbAngleIncidence /\ i + 1 = fr.nbSampleRotation
       IN  /\ loc' = [loc EXCEPT
                 !.frame.IntegralValue = integral,
                 !.frame.normalizationBsdf[i][j] = factor,
                 !.frame.bsdfData[i][j] = ScaleBlock(fr.bsdfData[i][j], factor),
                 !.frame.j = IF j + 1 < fr.nbAngleIncidence THEN j + 1 ELSE 0,
                 !.frame.i = IF j + 1 < fr.nbAngleIncidence THEN i ELSE i + 1]
           /\ pc' = IF last THEN "normalize.return" ELSE "normalize.slice"
    /\ UNCHANGED <<entry, file, handles, linesRead, fs, err>>

NormalizeReturn ==
    /\ pc = "normalize.return"
    /\ loc' = [loc EXCEPT !.normalizationBsdf = loc.frame.normalizationBsdf,
                          !.bsdfDataSpeos = loc.frame.bsdfData,
                          !.frame = None]
    /\ pc' = "write_speos"
    /\ UNCHANGED <<entry, file, handles, linesRead, fs, err>>

-----------------------------------------------------------------------------
(***************************************************************************)
(* Recommended precision (called by both entry points)                     *)
(***************************************************************************)
\* str() of a float that is a multiple of 0.1, given in thousandths.
StrFloat(m) == ToString(m \div 1000) \o "." \o ToString((m % 1000) \div 100)

\* str.lower() for the directories and the stems of the input files.
Lower(stem) ==
    IF stem = "Sample" THEN "sample" ELSE IF stem = "Data" THEN "data" ELSE stem

\* A path is the pair of its directory and its file name.
\* os.path.splitext(inputFilepath)[0].lower() + suffix: str.lower() is applied
\* to the whole path, the directory included.
LoweredPath(inputFilepath, stem, suffix) ==
    <<Lower(inputFilepath[1]), Lower(stem) \o suffix>>

\* os.path.dirname(path)
dirname(path) == path[1]

Precision ==
    /\ pc = "precision"
    /\ LET r == IF entry = "convert_zemax_to_speos_bsdf"
                THEN phi_theta_recommended_precision(loc.scatterRadial, loc.scatterAzimuth,
                                                      loc.symmetry)
                ELSE phi_theta_recommended_precision(loc.scatterRadial[0], loc.scatterAzimuth[0],
                                                      loc.symmetry)
       IN  IF r.err # "none"
           THEN /\ Raise(r.err)
                /\ loc' = loc
           ELSE /\ loc' = [loc EXCEPT !.precisionTheta = r.precisionTheta,
                                      !.precisionPhi = r.precisionPhi]
                /\ pc' = "resample.call"
                /\ err' = err
    /\ UNCHANGED <<entry, file, handles, linesRead, fs>>

-----------------------------------------------------------------------------
(***************************************************************************)
(* write_speos_header_bsdf, write_speos_data_bsdf                          *)
(* The text nLines is held as a record of what the lines state.            *)
(***************************************************************************)
write_speos_header_bsdf(binaryMode, anisotropyVector, scatterType, nbSampleRotation, nbAngleIncidence, sampleRotation, angleIncidence, tisData) ==
    [ kind             |-> "speos",
      headerLine       |-> "OPTIS - Anisotropic BSDF surface file v7.0",
      version          |-> 70,                   \* the token v7.0, in tenths
      binaryMode       |-> binaryMode,
      anisotropyVector |-> anisotropyVector,
      flags            |-> IF scatterType = "BRDF" THEN <<"1", "0">>
                           ELSE IF scatterType = "BTDF" THEN <<"0", "1">> ELSE None,
      valuesType       |-> IF scatterType = "BRDF" THEN 1
                           ELSE IF scatterType = "BTDF" THEN 0 ELSE None,
      nbSampleRotation |-> nbSampleRotation,
      sampleRotation   |-> [i \in 0..(nbSampleRotation - 1) |-> sampleRotation[i]],
      nbAngleIncidence |-> nbAngleIncidence,
      angleIncidence   |-> [i \in 0..(nbAngleIncidence - 1) |-> angleIncidence[i]],
      measurement      |-> <<angleIncidence[0], 0>>,
      nbWavelength     |-> 2,
      spectrum         |-> <<<<350, 100 * tisData[0][0]>>, <<850, 100 * tisData[0][0]>>>> ]

\* cosine * value for a cosine in 1/Scale and a value v >= 0 in 1/Unit, the
\* product taken in two parts to stay within 32 bits.
TimesCosine(cosine, v) ==
    RoundDiv((v \div 1000) * cosine, Scale \div 1000) + RoundDiv((v % 1000) * cosine, Scale)

\* A writer without the cosine, against which C16 is tried.
write_speos_data_bsdfMutant(nLines, scatterType, nbSampleRotation, nbAngleIncidence, line_theta, line_phi, bsdfDataSpeos) ==
    nLines @@
    [ blocks |->
        [i \in 0..(nbSampleRotation - 1) |->
           [j \in 0..(nbAngleIncidence - 1) |->
              [ nbTheta |-> len(line_theta), nbPhi |-> len(line_phi),
                phi     |-> line_phi,
                theta   |-> line_theta,
                values  |-> [k \in 0..(len(line_theta) - 1) |->
                               [x \in 0..(len(line_phi) - 1) |-> bsdfDataSpeos[i][j][k][x]]] ]]],
      lastLine |-> "End of file" ]

write_speos_data_bsdf(nLines, scatterType, nbSampleRotation, nbAngleIncidence, line_theta, line_phi, bsdfDataSpeos) ==
    LET nbTheta == len(line_theta)
        nbPhi   == len(line_phi)
        written(i, j, k, phi_idx) ==
            IF scatterType = "BRDF" THEN bsdfDataSpeos[i][j][k][phi_idx]
            ELSE IF scatterType = "BTDF"
            THEN TimesCosine(Cos(Deg(180) - line_theta[k]), bsdfDataSpeos[i][j][k][phi_idx])
            ELSE None
    IN  nLines @@
        [ blocks |->
            [i \in 0..(nbSampleRotation - 1) |->
               [j \in 0..(nbAngleIncidence - 1) |->
                  [ nbTheta |-> nbTheta, nbPhi |-> nbPhi,
                    phi     |-> line_phi,
                    theta   |-> line_theta,
                    values  |-> [k \in 0..(nbTheta - 1) |->
                                   [x \in 0..(nbPhi - 1) |-> written(i, j, k, x)]] ]]],
          lastLine |-> "End of file" ]

\* Lines 1218-1244 of convert_zemax_to_speos_bsdf.
WriteSpeos ==
    /\ pc = "write_speos"
    /\ LET header == write_speos_header_bsdf(0, <<0, 1, 0>>, loc.scatterType,
                         loc.nbSampleRotation, loc.nbAngleIncidence, loc.sampleRotation,
                         loc.angleIncidence, loc.tisData)
           nLines == write_speos_data_bsdf(header, loc.scatterType, loc.nbSampleRotation,
                         loc.nbAngleIncidence, loc.line_theta, loc.line_phi, loc.bsdfDataSpeos)
       IN  loc' = [loc EXCEPT
                 !.nLines = nLines,
                 !.outputFilepath =
                     LoweredPath(file.path, file.stem,
                         "_" \o StrFloat(loc.precisionTheta)
                         \o "_" \o StrFloat(loc.precisionPhi) \o ".anisotropicbsdf")]
    /\ pc' = "write_file.open"
    /\ UNCHANGED <<entry, file, handles, linesRead, fs, err>>

-----------------------------------------------------------------------------
(***************************************************************************)
(* write_file                                                              *)
(***************************************************************************)
\* nFile = open(outputFilepath, "w"): the file is created or truncated.
WriteFileOpen ==
    /\ pc = "write_file.open"
    /\ handles' = handles \cup {loc.outputFilepath}
    /\ fs' = {f \in fs : f.path # loc.outputFilepath}
             \cup {[path |-> loc.outputFilepath, content |-> [kind |-> "empty"]]}
    /\ pc' = "write_file.write"
    /\ UNCHANGED <<entry, file, loc, linesRead, err>>

\* nFile = open(outputFilepath, "w") where the file system tells upper from
\* lower case and has no directory of the lowered name: FileNotFoundError.
\* (Where such a directory exists, or where case is ignored, WriteFileOpen.)
WriteFileOpenFails ==
    /\ pc = "write_file.open"
    /\ dirname(loc.outputFilepath) # dirname(file.path)
    /\ Raise("FileNotFoundError")
    /\ UNCHANGED <<entry, file, loc, handles, linesRead, fs>>

\* nFile.writelines(nLines)
WriteFileLines ==
    /\ pc = "write_file.write"
    /\ fs' = {f \in fs : f.path # loc.outputFilepath}
             \cup {[path |-> loc.outputFilepath, content |-> loc.nLines]}
    /\ pc' = "write_file.close"
    /\ UNCHANGED <<entry, file, loc, handles, linesRead, err>>

\* The operating system refuses the write (a full disk, say): writelines raises.
WriteFileFails ==
    /\ pc = "write_file.write"
    /\ Raise("OSError")
    /\ UNCHANGED <<entry, file, loc, handles, linesRead, fs>>

\* nFile.close(), and the continuation in the entry point: the Zemax-to-Speos
\* job is over; the Speos-to-Zemax job goes on with the next file to write.
WriteFileClose ==
    /\ pc = "write_file.close"
    /\ handles' = handles \ {loc.outputFilepath}
    /\ IF entry = "convert_zemax_to_speos_bsdf"
       THEN /\ pc' = "done"
            /\ loc' = loc
       ELSE IF loc.index_RT + 1 < loc.nb_reflection_transmission
       THEN /\ loc' = [loc EXCEPT !.index_RT = @ + 1]
            /\ pc' = "write_zemax"
       ELSE IF loc.index_wavelength + 1 < loc.nbWavelength
       THEN /\ loc' = [loc EXCEPT !.index_wavelength = @ + 1, !.index_RT = 0]
            /\ pc' = "write_zemax"
       ELSE /\ pc' = "done"
            /\ loc' = loc
    /\ UNCHANGED <<entry, file, linesRead, fs, err>>

-----------------------------------------------------------------------------
(***************************************************************************)
(* read_speos_bsdf                                                         *)
(***************************************************************************)
\* "brdf" in input_file_extension
HasBrdf(ext) == ext = "brdf"

\* Python's == between a str and an int: never true.
StrEqualsInt(str, int) == FALSE

SpeosFrame0 ==
    [ fn                         |-> "read_speos_bsdf",
      bool_success               |-> 1,
      nb_reflection_transmission |-> 1,
      symmetry         |-> Unbound, scatterType      |-> Unbound,
      version          |-> Unbound, textorbinary     |-> Unbound,
      nbAngleIncidence |-> Unbound, nbWavelength     |-> Unbound,
      angleIncidence   |-> Unbound, wavelength       |-> Unbound,
      scatterRadial_list |-> Unbound, scatterAzimuth_list |-> Unbound,
      tisData          |-> Unbound, bsdfData_list    |-> Unbound ]

\* bfile = open(inputFilepath, "r"), and the test of the extension.
ReadSpeosOpen ==
    /\ pc = "call"
    /\ entry = "convert_speos_to_zemax_bsdf"
    /\ handles' = handles \cup {file.path}
    /\ loc' = [loc EXCEPT !.frame =
                 [SpeosFrame0 EXCEPT !.symmetry = IF HasBrdf(file.ext)
                                                  THEN "Asymmetrical" ELSE Unbound]]
    /\ pc' = "read_speos.row1"
    /\ UNCHANGED <<entry, file, linesRead, fs, err>>

\* A reader with another threshold, against which C5 is tried.
VersionTooOldMutant(version) == version < 79

\* float(version[1:]) < 8.0, the version in tenths
VersionTooOld(version) == version < 80

\* Row 1: the header line and its version token (lines 438-446).
ReadSpeosRow1 ==
    /\ pc = "read_speos.row1"
    /\ linesRead' = linesRead + 1
    /\ IF VersionTooOld(file.version)
       THEN /\ loc' = [loc EXCEPT !.frame.version = file.version,
                                  !.frame.bool_success = 0]
            /\ pc' = "read_speos.input"
       ELSE /\ loc' = [loc EXCEPT !.frame.version = file.version]
            /\ pc' = "read_speos.row2"
    /\ UNCHANGED <<entry, file, handles, fs, err>>

\* Row 2: the text/binary flag (lines 450-456).
ReadSpeosRow2 ==
    /\ pc = "read_speos.row2"
    /\ linesRead' = linesRead + 1
    /\ IF StrEqualsInt(file.textorbinary, 0)
       THEN /\ loc' = [loc EXCEPT !.frame.textorbinary = file.textorbinary,
                                  !.frame.bool_success = 0]
            /\ pc' = "read_speos.input"
       ELSE /\ loc' = [loc EXCEPT !.frame.textorbinary = file.textorbinary]
            /\ pc' = "read_speos.header"
    /\ UNCHANGED <<entry, file, handles, fs, err>>

\* tempVariable = input(".....Press Enter to continue") returns once the user
\* has pressed Enter; exit() then raises SystemExit.
UserPressesEnter ==
    /\ pc = "read_speos.input"
    /\ Raise("SystemExit")
    /\ UNCHANGED <<entry, file, loc, handles, linesRead, fs>>

\* input() on a standard input that is at its end raises EOFError.
StdinAtEOF ==
    /\ pc = "read_speos.input"
    /\ Raise("EOFError")
    /\ UNCHANGED <<entry, file, loc, handles, linesRead, fs>>

\* Rows 3 to 10 (lines 461-495).
\* A reader that takes a file with both flags set for a single group, against
\* which C18 is tried.
StackedGroupsMutant(reflection, transmission, nb_reflection_transmission) ==
    nb_reflection_transmission

\* if reflectionortransmission[0] == "1" and reflectionortransmission[1] == "1":
\*     nb_reflection_transmission = 2
StackedGroups(reflection, transmission, nb_reflection_transmission) ==
    IF reflection = "1" /\ transmission = "1" THEN 2 ELSE nb_reflection_transmission

ReadSpeosHeader ==
    /\ pc = "read_speos.header"
    /\ linesRead' = linesRead + 8
    /\ LET s1 == IF file.reflection = "1" THEN "BRDF" ELSE loc.frame.scatterType
           s2 == IF file.transmission = "1" THEN "BTDF" ELSE s1
           n  == StackedGroups(file.reflection, file.transmission,
                               loc.frame.nb_reflection_transmission)
       IN  loc' = [loc EXCEPT !.frame.scatterType = s2,
                              !.frame.nb_reflection_transmission = n,
                              !.frame.nbAngleIncidence = file.nbAngleIncidence,
                              !.frame.nbWavelength = file.nbWavelength,
                              !.frame.angleIncidence = file.angleIncidence,
                              !.frame.wavelength = file.wavelength]
    /\ pc' = "read_speos.data"
    /\ UNCHANGED <<entry, file, handles, fs, err>>

\* Lines 539-546: the rows of block number b of the data section, one per
\* radial value; after its radial value a row holds one sample per azimuth
\* value.
bsdfDataBlock(f, b) ==
    [k \in DOMAIN f.scatterRadial |->
       [a \in DOMAIN f.scatterAzimuth |-> FileSample(f, b, a, k)]]

\* A reader that keeps the rows as they are, against which C25 is tried.
transposeMutant(m) == m

\* np.transpose of a matrix with at least one row.
transpose(m) == [a \in DOMAIN m[0] |-> [k \in DOMAIN m |-> m[k][a]]]

\* The data section (lines 515-549): for every stacked index i and wavelength
\* j, in this order, the TIS line, the sizes, the azimuth row and the radial
\* rows; each block is appended transposed, [azimuth][radial].
ReadSpeosData ==
    /\ pc = "read_speos.data"
    /\ LET fr == loc.frame
           rows == fr.nb_reflection_transmission * fr.nbAngleIncidence
           flat == 0..(rows * fr.nbWavelength - 1)
       IN  /\ loc' = [loc EXCEPT
                 !.frame.tisData =
                     [i \in 0..(rows - 1) |->
                        [j \in 0..(fr.nbWavelength - 1) |-> FileTIS(file, i * fr.nbWavelength + j)]],
                 !.frame.scatterRadial_list  = [b \in flat |-> file.scatterRadial],
                 !.frame.scatterAzimuth_list = [b \in flat |-> file.scatterAzimuth],
                 !.frame.bsdfData_list =
                     [b \in flat |-> transpose(bsdfDataBlock(file, b))]]
           /\ linesRead' = linesRead + rows * fr.nbWavelength * (3 + len(file.scatterRadial))
    /\ pc' = "read_speos.return"
    /\ UNCHANGED <<entry, file, handles, fs, err>>

\* The return statement names scatterType and symmetry: one that was never
\* assigned raises UnboundLocalError.  The handle bfile is not closed.  The
\* entry point goes on when bool_success == 1.
ReadSpeosReturn ==
    /\ pc = "read_speos.return"
    /\ LET fr == loc.frame
       IN  IF fr.scatterType = Unbound \/ fr.symmetry = Unbound
           THEN /\ Raise("UnboundLocalError")
                /\ loc' = loc
           ELSE /\ loc' = [loc EXCEPT
                     !.bool_success = fr.bool_success,
                     !.nb_reflection_transmission = fr.nb_reflection_transmission,
                     !.scatterType = fr.scatterType,
                     !.symmetry = fr.symmetry,
                     !.nbWavelength = fr.nbWavelength,
                     !.nbAngleIncidence = fr.nbAngleIncidence,
                     !.angleIncidence = fr.angleIncidence,
                     !.wavelength = fr.wavelength,
                     !.scatterRadial = fr.scatterRadial_list,
                     !.scatterAzimuth = fr.scatterAzimuth_list,
                     !.tisData = fr.tisData,
                     !.bsdfData = fr.bsdfData_list,
                     !.frame = None]
                /\ pc' = IF fr.bool_success = 1 THEN "precision" ELSE "done"
                /\ err' = err
    /\ UNCHANGED <<entry, file, handles, linesRead, fs>>

-----------------------------------------------------------------------------
(***************************************************************************)
(* write_zemax_header_bsdf, write_zemax_data_bsdf                          *)
(***************************************************************************)
\* "{:.3e}".format(v): v to four significant digits (v >= 0, in 1/Unit).
Format3e(v) ==
    IF v < 10 * Unit THEN v
    ELSE IF v < 100 * Unit THEN RoundHalfEven(v, 10)
    ELSE IF v < 1000 * Unit THEN RoundHalfEven(v, 100)
    ELSE RoundHalfEven(v, 1000)

\* A header that declares the rotations of the caller's dataset instead of the
\* single synthetic one, against which C17 is tried.
write_zemax_header_bsdfMutant(scatterType, symmetry, currentwavelength, nbSampleRotation, nbAngleIncidence, sampleRotation, angleIncidence, line_theta, line_phi) ==
    [ kind             |-> "zemax",
      comment          |-> "#Data converted from Speos data",
      wavelength       |-> currentwavelength,
      source           |-> "Measured",
      symmetry         |-> symmetry,
      spectralContent  |-> "Monochrome",
      scatterType      |-> scatterType,
      nbSampleRotation |-> nbAngleIncidence,
      sampleRotation   |-> [i \in 0..(nbAngleIncidence - 1) |-> angleIncidence[i]],
      nbAngleIncidence |-> nbAngleIncidence,
      angleIncidence   |-> [i \in 0..(nbAngleIncidence - 1) |-> angleIncidence[i]],
      nbScatterAzimuth |-> len(line_phi),
      scatterAzimuth   |-> line_phi,
      nbScatterRadial  |-> len(line_theta),
      scatterRadial    |-> line_theta,
      dataBegin        |-> "DataBegin" ]

write_zemax_header_bsdf(scatterType, symmetry, currentwavelength, nbSampleRotation, nbAngleIncidence, sampleRotation, angleIncidence, line_theta, line_phi) ==
    [ kind             |-> "zemax",
      comment          |-> "#Data converted from Speos data",
      wavelength       |-> currentwavelength,
      source           |-> "Measured",
      symmetry         |-> symmetry,
      spectralContent  |-> "Monochrome",
      scatterType      |-> scatterType,
      nbSampleRotation |-> nbSampleRotation,
      sampleRotation   |-> [i \in 0..(nbSampleRotation - 1) |-> sampleRotation[i]],
      nbAngleIncidence |-> nbAngleIncidence,
      angleIncidence   |-> [i \in 0..(nbAngleIncidence - 1) |-> angleIncidence[i]],
      nbScatterAzimuth |-> len(line_phi),
      scatterAzimuth   |-> line_phi,
      nbScatterRadial  |-> len(line_theta),
      scatterRadial    |-> line_theta,
      dataBegin        |-> "DataBegin" ]

\* A writer that stops one row short in each block, against which C20 is tried.
write_zemax_data_bsdfMutant(index_wavelength, index_RT, nbSampleRotation, nbAngleIncidence, tisData, bsdfData, shape2, shape3) ==
    [ tisLines |->
        [i \in 0..(nbSampleRotation - 1) |->
           [j \in 0..(nbAngleIncidence - 1) |->
              RoundDiv(tisData[j][index_wavelength], 100)]],
      rows |->
        [i \in 0..(nbSampleRotation - 1) |->
           [j \in 0..(nbAngleIncidence - 1) |->
              [k \in 0..(shape3 - 2) |->
                 [l \in 0..(shape2 - 1) |->
                    Format3e(bsdfData[j + nbAngleIncidence * index_RT][index_wavelength][l][k])]]]],
      dataEnd |-> "DataEnd" ]

\* tisLines[i][j] is the TIS line of block (i, j), rows[i][j][k][l] the value
\* number l of its row number k.  shape2 and shape3 are bsdfData.shape[2] and
\* bsdfData.shape[3].
write_zemax_data_bsdf(index_wavelength, index_RT, nbSampleRotation, nbAngleIncidence, tisData, bsdfData, shape2, shape3) ==
    [ tisLines |->
        [i \in 0..(nbSampleRotation - 1) |->
           [j \in 0..(nbAngleIncidence - 1) |->
              RoundDiv(tisData[j][index_wavelength], 100)]],
      rows |->
        [i \in 0..(nbSampleRotation - 1) |->
           [j \in 0..(nbAngleIncidence - 1) |->
              LET index_angle == j + nbAngleIncidence * index_RT
              IN  [k \in 0..(shape3 - 1) |->
                     [l \in 0..(shape2 - 1) |->
                        Format3e(bsdfData[index_angle][index_wavelength][l][k])]]]],
      dataEnd |-> "DataEnd" ]

\* One pass of the two loops of convert_speos_to_zemax_bsdf (lines 1309-1348)
\* up to the call of write_file.
WriteZemax ==
    /\ pc = "write_zemax"
    /\ LET text_RT == Arr(<<"BRDF", "BTDF">>)
           scatterType == IF loc.nb_reflection_transmission > 1
                          THEN text_RT[loc.index_RT] ELSE loc.scatterType
           nbSampleRotation == 1
           sampleRotation == Arr(<<0>>)
           nLines_header ==
               write_zemax_header_bsdf(scatterType, loc.symmetry,
                   loc.wavelength[loc.index_wavelength], nbSampleRotation,
                   loc.nbAngleIncidence, sampleRotation, loc.angleIncidence,
                   loc.line_theta, loc.line_phi)
           nLines_data ==
               write_zemax_data_bsdf(loc.index_wavelength, loc.index_RT, nbSampleRotation,
                   loc.nbAngleIncidence, loc.tisData, loc.bsdfDataZemax,
                   len(loc.bsdfDataZemax[0][0]), len(loc.bsdfDataZemax[0][0][0]))
       IN  loc' = [loc EXCEPT
                 !.scatterType = scatterType,
                 !.nLines = nLines_header @@ nLines_data,
                 !.outputFilepath =
                     LoweredPath(file.path, file.stem,
                         "_" \o StrFloat(1000 * loc.wavelength[loc.index_wavelength])
                         \o "_" \o scatterType \o "_" \o StrFloat(loc.precisionTheta)
                         \o "_" \o StrFloat(loc.precisionPhi) \o ".bsdf")]
    /\ pc' = "write_file.open"
    /\ UNCHANGED <<entry, file, handles, linesRead, fs, err>>

-----------------------------------------------------------------------------
(***************************************************************************)
(* The runtime.  Neither reader closes bfile.  Once the reader has         *)
(* returned nothing refers to the file object any more, and the runtime    *)
(* may finalize it, which closes the handle, at any later moment or never. *)
(* An exception raised inside a reader keeps the reader's frame, and       *)
(* bfile with it, alive in its traceback.                                  *)
(***************************************************************************)
ReaderPositions ==
    {"call", "read_zemax.header", "read_zemax.sampleRotation", "read_zemax.angleIncidence",
     "read_zemax.scatterAzimuth", "read_zemax.scatterRadial", "read_zemax.data",
     "read_zemax.return", "read_speos.row1", "read_speos.row2", "read_speos.input",
     "read_speos.header", "read_speos.data", "read_speos.return"}

\* The exceptions the readers raise.
ReaderErrors == {"UnboundLocalError", "ValueError", "SystemExit", "EOFError"}

FinalizeReaderHandle ==
    /\ file.path \in handles
    /\ pc \notin ReaderPositions
    /\ err \notin ReaderErrors
    /\ handles' = handles \ {file.path}
    /\ UNCHANGED <<pc, entry, file, loc, linesRead, fs, err>>

-----------------------------------------------------------------------------
(***************************************************************************)
(* The jobs                                                                *)
(***************************************************************************)
Locals0 ==
    [ frame |-> None,
      bool_speos_brdf |-> Unbound, bool_success |-> Unbound,
      nb_reflection_transmission |-> Unbound,
      scatterType |-> Unbound, symmetry |-> Unbound,
      nbSampleRotation |-> Unbound, nbAngleIncidence |-> Unbound,
      nbScatterAzimuth |-> Unbound, nbScatterRadial |-> Unbound,
      nbWavelength |-> Unbound, wavelength |-> Unbound,
      angleIncidence |-> Unbound, sampleRotation |-> Unbound,
      scatterRadial |-> Unbound, scatterAzimuth |-> Unbound,
      tisData |-> Unbound, bsdfData |-> Unbound,
      precisionTheta |-> Unbound, precisionPhi |-> Unbound,
      bsdfDataSpeos |-> Unbound, bsdfDataZemax |-> Unbound,
      line_theta |-> Unbound, line_phi |-> Unbound,
      normalizationBsdf |-> Unbound,
      index_wavelength |-> Unbound, index_RT |-> Unbound,
      nLines |-> Unbound, outputFilepath |-> Unbound ]

\* The directories the caller's inputFilepath may name.
Directories == {"data", "Data"}

\* The file f in the directory d: inputFilepath is d/f.
InDirectory(f, d) == [f EXCEPT !.path = <<d, f.path>>]

\* The caller of convert_speos_to_zemax_bsdf chooses bool_speos_brdf: the
\* docstring asks for 1 when the extension is brdf, nothing enforces it.
Init ==
    /\ pc = "call"
    /\ \/ /\ entry = "convert_zemax_to_speos_bsdf"
          /\ \E f \in ZemaxFiles, d \in Directories : file = InDirectory(f, d)
          /\ loc = Locals0
       \/ /\ entry = "convert_speos_to_zemax_bsdf"
          /\ \E f \in SpeosFiles, d \in Directories : file = InDirectory(f, d)
          /\ \E b \in {0, 1} : loc = [Locals0 EXCEPT !.bool_speos_brdf = b]
    /\ handles = {}
    /\ linesRead = 0
    /\ fs = {}
    /\ err = "none"

Next ==
    \/ ReadZemaxOpen
    \/ ReadZemaxHeader
    \/ \E ax \in ZemaxAxisNames : ReadZemaxAxis(ax)
    \/ ReadZemaxData
    \/ ReadZemaxReturn
    \/ ReadSpeosOpen
    \/ ReadSpeosRow1
    \/ ReadSpeosRow2
    \/ UserPressesEnter
    \/ StdinAtEOF
    \/ ReadSpeosHeader
    \/ ReadSpeosData
    \/ ReadSpeosReturn
    \/ Precision
    \/ ResampleCall
    \/ ResampleCell
    \/ ResampleEnd
    \/ NormalizeCall
    \/ NormalizeSlice
    \/ NormalizeReturn
    \/ WriteSpeos
    \/ WriteZemax
    \/ WriteFileOpen
    \/ WriteFileOpenFails
    \/ WriteFileLines
    \/ WriteFileFails
    \/ WriteFileClose
    \/ FinalizeReaderHandle

Spec == Init /\ [][Next]_vars

-----------------------------------------------------------------------------
(***************************************************************************)
(* The functions on their own.  A caller applies one of the two transforms *)
(* to a direction, and the other one to the result; or the job stands      *)
(* where read_zemax_bsdf leaves it for a file that declares axes of given  *)
(* lengths and no sample rotation (hence no data block), so that the       *)
(* precision and the target axes are computed and no cell is resampled.    *)
(***************************************************************************)
MaxRadialLen  == 9           \* ScatterRadial holds 2..MaxRadialLen values, or 181
MaxAzimuthLen == 16          \* ScatterAzimuth holds 2..MaxAzimuthLen values, or one below

RadialLengths  == 2..MaxRadialLen \cup {27, 181}
AzimuthLengths == 2..MaxAzimuthLen \cup {17, 35, 49, 721, 722, 1000, 1001, 1002}

\* The directions and incidences the transforms are applied to (millidegrees).
TransformThetas     == {Deg(0), Deg(10), Deg(30), Deg(45), Deg(60), Deg(90)}
TransformPhis       == {Deg(0), Deg(30), Deg(60), Deg(90), Deg(135), Deg(180), Deg(225),
                        Deg(270), Deg(330)}
TransformIncidences == {Deg(0), Deg(30), Deg(60)}

\* An axis of n values, 0.01 degree apart.
AxisOfLength(n) == [x \in 0..(n - 1) |-> 10 * x]

InitFn ==
    /\ handles = {}
    /\ linesRead = 0
    /\ fs = {}
    /\ err = "none"
    /\ \/ /\ pc = "call"
          /\ entry \in {"convert_normal_to_specular_using_cartesian",
                        "convert_specular_to_normal_using_cartesian"}
          /\ file = [kind |-> "none", path |-> <<"none", "none">>]
          /\ \E theta_i \in TransformThetas, phi_i \in TransformPhis,
                angle_inc \in TransformIncidences :
                loc = [theta_i |-> theta_i, phi_i |-> phi_i, angle_inc |-> angle_inc,
                       result |-> <<>>, back |-> <<>>]
       \/ /\ pc = "precision"
          /\ entry = "convert_zemax_to_speos_bsdf"
          /\ file = [kind |-> "zemax", path |-> <<"data", "Header.bsdf">>]
          /\ \E nRad \in RadialLengths, nAz \in AzimuthLengths,
                sym \in {"PlaneSymmetrical", "Asymmetrical4D"}, st \in {"BRDF", "BTDF"} :
                loc = [Locals0 EXCEPT
                         !.scatterType = st, !.symmetry = sym,
                         !.nbSampleRotation = 0, !.nbAngleIncidence = 1,
                         !.nbScatterAzimuth = nAz, !.nbScatterRadial = nRad,
                         !.angleIncidence = Arr(<<Deg(0)>>), !.sampleRotation = <<>>,
                         !.scatterRadial = AxisOfLength(nRad),
                         !.scatterAzimuth = AxisOfLength(nAz),
                         !.tisData = <<>>, !.bsdfData = <<>>]

\* convert_normal_to_specular_using_cartesian(theta_i, phi_i, angle_inc)
NormalToSpecularCall ==
    /\ pc = "call"
    /\ entry = "convert_normal_to_specular_using_cartesian"
    /\ loc' = [loc EXCEPT !.result =
                 convert_normal_to_specular_using_cartesian(loc.theta_i, loc.phi_i, loc.angle_inc)]
    /\ pc' = "returned"
    /\ UNCHANGED <<entry, file, handles, linesRead, fs, err>>

\* convert_specular_to_normal_using_cartesian(theta_i, phi_i, angle_inc)
SpecularToNormalCall ==
    /\ pc = "call"
    /\ entry = "convert_specular_to_normal_using_cartesian"
    /\ loc' = [loc EXCEPT !.result =
                 convert_specular_to_normal_using_cartesian(loc.theta_i, loc.phi_i, loc.angle_inc)]
    /\ pc' = "returned"
    /\ UNCHANGED <<entry, file, handles, linesRead, fs, err>>

\* The caller hands the result of the first transform to the other one, with
\* the same angle of incidence.
TransformBack ==
    /\ pc = "returned"
    /\ loc' = [loc EXCEPT !.back =
                 IF entry = "convert_normal_to_specular_using_cartesian"
                 THEN convert_specular_to_normal_using_cartesian(loc.result[1], loc.result[2],
                                                                 loc.angle_inc)
                 ELSE convert_normal_to_specular_using_cartesian(loc.result[1], loc.result[2],
                                                                 loc.angle_inc)]
    /\ pc' = "done"
    /\ UNCHANGED <<entry, file, handles, linesRead, fs, err>>

NextFn ==
    \/ NormalToSpecularCall
    \/ SpecularToNormalCall
    \/ TransformBack
    \/ Precision
    \/ ResampleCall
    \/ ResampleEnd

SpecFn == InitFn /\ [][NextFn]_vars

-----------------------------------------------------------------------------
(***************************************************************************)
(* Properties                                                              *)
(***************************************************************************)
\* The frame of convert_zemax_speos_bsdf_data is on the stack and its loop
\* body has run for the cell recorded in frame.cell.
CellDone ==
    /\ pc \in {"resample.cell", "resample.end"} \/ (pc = "raised" /\ err = "IndexError")
    /\ loc.frame.cell.assigned

\* The frame as it was when the recorded cell was processed.
CellFrame == [loc.frame EXCEPT !.i = loc.frame.cell.i, !.j = loc.frame.cell.j,
                               !.index = loc.frame.cell.index]

\* C1: in normalize_bsdf_data a slice whose computed integral is <= 0 is left
\* unscaled: once the slice is processed its block equals the block the
\* function was called with.
C1_ZeroIntegralLeavesBlock ==
    pc \in {"normalize.slice", "normalize.return"} =>
        \A i \in 0..(loc.frame.nbSampleRotation - 1), j \in 0..(loc.frame.nbAngleIncidence - 1) :
            ( /\ i < loc.frame.i \/ (i = loc.frame.i /\ j < loc.frame.j)
              /\ IntegralValue(loc.bsdfDataSpeos[i][j], loc.line_theta, loc.line_phi) <= 0 )
            => loc.frame.bsdfData[i][j] = loc.bsdfDataSpeos[i][j]

\* C2: in read_zemax_bsdf a values line whose number of tokens differs from
\* the declared count is only a warning: the reader does not abort and the
\* rest of the Zemax-to-Speos conversion does not fail (a failure to write the
\* output file apart).
C2_CountMismatchIsNotFatal ==
    ( /\ entry = "convert_zemax_to_speos_bsdf"
      /\ \E ax \in ZemaxAxisNames : file[CountName(ax)] # len(file[ax]) )
    => ~(pc = "raised" /\ err # "OSError")

\* C3: for a Speos file with both flags set, convert_speos_to_zemax_bsdf
\* writes two files per wavelength, tagged BRDF and BTDF; for incidence index
\* j the BRDF file carries the TIS entry and the block at stacked index j and
\* the BTDF file those at stacked index nbAngleIncidence + j.
C3_EachFileCarriesItsOwnData ==
    ( /\ entry = "convert_speos_to_zemax_bsdf"
      /\ pc \in {"write_file.open", "done"}
      /\ loc.nb_reflection_transmission = 2 )
    => IF pc = "done"
       THEN Cardinality(fs) = 2 * loc.nbWavelength
       ELSE /\ loc.nLines.scatterType = (IF loc.index_RT = 0 THEN "BRDF" ELSE "BTDF")
            /\ \A j \in 0..(loc.nbAngleIncidence - 1) :
                 /\ loc.nLines.tisLines[0][j]
                      = RoundDiv(loc.tisData[loc.index_RT * loc.nbAngleIncidence + j]
                                            [loc.index_wavelength], 100)
                 /\ \A k \in DOMAIN loc.line_phi, l \in DOMAIN loc.line_theta :
                      loc.nLines.rows[0][j][k][l]
                        = Format3e(loc.bsdfDataZemax[loc.index_RT * loc.nbAngleIncidence + j]
                                                    [loc.index_wavelength][l][k])

\* C4: read_speos_bsdf rejects a file whose text/binary flag on line 2 is 0:
\* it never reads past line 2 of such a file.
C4_BinaryFlagIsFatal ==
    (entry = "convert_speos_to_zemax_bsdf" /\ file.textorbinary = "0") => linesRead <= 2

\* C5: in read_speos_bsdf a version below 8.0 is fatal: no line after the
\* first is read, no output file is written, and the job only aborts; a
\* version of 8.0 or more does not abort at the first line.
C5_OldVersionIsFatal ==
    (entry = "convert_speos_to_zemax_bsdf" /\ linesRead >= 1) =>
        IF file.version < 80
        THEN /\ linesRead = 1
             /\ fs = {}
             /\ pc \in {"read_speos.input", "raised"}
             /\ pc = "raised" => err \in {"SystemExit", "EOFError"}
        ELSE ~(linesRead = 1 /\ pc \in {"read_speos.input", "raised"})

C5_Witness ==
    /\ entry = "convert_speos_to_zemax_bsdf"
    /\ file.version = 79
    /\ pc = "raised" /\ err = "SystemExit"
    /\ linesRead = 1 /\ fs = {}

\* C6: every handle the readers and write_file open is closed on every exit
\* path: none is open once the job has completed or aborted.
C6_NoHandleLeftOpen == Ended => handles = {}

\* C7: a conversion job never waits for anything but file I/O; in particular
\* the fatal paths of the Speos reader do not wait for user input.
C7_NeverWaitsForInput == pc # "read_speos.input"

\* C8: in convert_zemax_speos_bsdf_data, every target cell (theta_k, phi_l)
\* whose transformed theta lies outside [0, 90] has the value 0 in the
\* returned dataset, in both directions and for BRDF and BTDF.  The first
\* branch of the return keeps the cell at [k][l]; the second stores row k at
\* row nbTheta - 1 - k.
C8_OutOfRangeCellsAreZero ==
    pc = "resample.end" =>
        \A i \in DOMAIN loc.frame.bsdfDataSpeos, j \in 0..(loc.frame.nbAngleIncidence - 1),
           k \in 0..(loc.frame.nbTheta - 1), l \in 0..(loc.frame.nbPhi - 1) :
            LET fr == loc.frame
                t  == NewAngles(fr.bool_speos_brdf, k * fr.precisionTheta, l * fr.precisionPhi,
                                fr.sampleRotation[i % fr.nbSampleRotation],
                                fr.angleIncidence[j])[1]
                kk == IF fr.bool_speos_brdf = 1 \/ fr.scatterType = "BRDF"
                      THEN k ELSE fr.nbTheta - 1 - k
            IN  (t < 0 \/ t > Deg(90)) => ResampleResult(fr).bsdfDataSpeos[i][j][kk][l] = 0

\* A BTDF file resampled in the Zemax-to-Speos direction, with a cell out of
\* range whose mirrored row holds a value that is not 0.
C8_Witness ==
    /\ pc = "resample.end"
    /\ loc.frame.bool_speos_brdf = 0
    /\ loc.frame.scatterType = "BTDF"
    /\ \E j \in 0..(loc.frame.nbAngleIncidence - 1),
          k \in 0..(loc.frame.nbTheta - 1), l \in 0..(loc.frame.nbPhi - 1) :
            /\ NewAngles(0, k * loc.frame.precisionTheta, l * loc.frame.precisionPhi,
                         loc.frame.sampleRotation[0], loc.frame.angleIncidence[j])[1] > Deg(90)
            /\ ResampleResult(loc.frame).bsdfDataSpeos[0][j][k][l] # 0

\* C9: in the bracket search, a binary search result past the last index
\* gives both bracket indices the last index and the weight 0, a result of 0
\* gives both the index 0 and the weight 0, and every index used to read the
\* source block is within its axis.
C9_BracketIndicesInBounds ==
    (CellDone /\ loc.frame.cell.lookup) =>
        LET c       == loc.frame.cell
            radial  == SourceRadial(CellFrame)
            azimuth == SourceAzimuth(CellFrame)
            bt      == bisect_left(radial, c.newTheta, 0, len(radial))
            bp      == bisect_left(azimuth, c.newPhi, 0, len(azimuth))
        IN  /\ {c.indexInfTheta, c.indexSupTheta} \subseteq DOMAIN radial
            /\ {c.indexInfPhi, c.indexSupPhi} \subseteq DOMAIN azimuth
            /\ bt = 0 => c.indexInfTheta = 0 /\ c.indexSupTheta = 0 /\ c.coeffTheta = 0
            /\ bp = 0 => c.indexInfPhi = 0 /\ c.indexSupPhi = 0 /\ c.coeffPhi = 0
            /\ bt > len(radial) - 1 =>
                 /\ c.indexInfTheta = len(radial) - 1
                 /\ c.indexSupTheta = len(radial) - 1
                 /\ c.coeffTheta = 0
            /\ bp > len(azimuth) - 1 =>
                 /\ c.indexInfPhi = len(azimuth) - 1
                 /\ c.indexSupPhi = len(azimuth) - 1
                 /\ c.coeffPhi = 0

\* C10: when the transformed direction of a target cell is exactly a point
\* (radial[a], azimuth[b]) of the source grid, the interpolation returns the
\* source sample at that point, each weight is 0 or 1 and the corner each
\* weight selects is the point's index.
C10_ExactGridPointReproducesSource ==
    (CellDone /\ loc.frame.cell.lookup /\ loc.frame.cell.exc = "none") =>
        LET c       == loc.frame.cell
            radial  == SourceRadial(CellFrame)
            azimuth == SourceAzimuth(CellFrame)
            block   == SourceBlock(CellFrame)
        IN  \A a \in DOMAIN radial, b \in DOMAIN azimuth :
                (radial[a] = c.newTheta /\ azimuth[b] = c.newPhi) =>
                    /\ c.bsdfValue = block[b][a]
                    /\ c.coeffTheta \in {0, Unit}
                    /\ c.coeffPhi \in {0, Unit}
                    /\ (IF c.coeffTheta = 0 THEN c.indexInfTheta ELSE c.indexSupTheta) = a
                    /\ (IF c.coeffPhi = 0 THEN c.indexInfPhi ELSE c.indexSupPhi) = b

\* A cell that falls on the last radial value and on an azimuth value that is
\* not the first, where the neighbouring samples differ.
C10_Witness ==
    /\ CellDone /\ loc.frame.cell.lookup /\ loc.frame.cell.exc = "none"
    /\ LET c       == loc.frame.cell
           radial  == SourceRadial(CellFrame)
           azimuth == SourceAzimuth(CellFrame)
           block   == SourceBlock(CellFrame)
           a       == len(radial) - 1
       IN  /\ radial[a] = c.newTheta
           /\ c.coeffTheta = Unit
           /\ \E b \in DOMAIN azimuth :
                /\ b > 0
                /\ azimuth[b] = c.newPhi
                /\ block[b][a] # block[b][a - 1]
                /\ block[b][a] # block[b - 1][a]

-----------------------------------------------------------------------------
\* What the fixed-point transforms are exact to: a round trip that is off by
\* more than this in the model is off in the program.
Tolerance == Deg(1) \div 2

\* The distance of two azimuths on the circle.
PhiDistance(a, b) == Min2(Abs(a - b), Deg(360) - Abs(a - b))

\* C11: the two transforms are near-inverses: for theta in [0, 90], phi in
\* [0, 360) and an incidence in [0, 90), convert_specular_to_normal_using_cartesian
\* applied to the result of convert_normal_to_specular_using_cartesian, with
\* the same incidence, gives (theta, phi) back, the degenerate directions
\* theta = 0 and x = 0 included.
C11_TransformsAreNearInverses ==
    (pc = "done" /\ entry = "convert_normal_to_specular_using_cartesian") =>
        /\ Abs(loc.back[1] - loc.theta_i) <= Tolerance
        /\ PhiDistance(loc.back[2], loc.phi_i) <= Tolerance

\* C12: for every precision pair phi_theta_recommended_precision returns, the
\* target axes convert_zemax_speos_bsdf_data builds start at 0, advance by the
\* precision and end exactly at 90 (theta) and at 360 (phi).
C12_TargetAxesCoverTheRange ==
    (pc = "normalize.call" /\ entry = "convert_zemax_to_speos_bsdf") =>
        /\ \A k \in DOMAIN loc.line_theta : loc.line_theta[k] = k * loc.precisionTheta
        /\ \A x \in DOMAIN loc.line_phi : loc.line_phi[x] = x * loc.precisionPhi
        /\ loc.line_theta[len(loc.line_theta) - 1] = Deg(90)
        /\ loc.line_phi[len(loc.line_phi) - 1] = Deg(360)

\* precisionPhi is a multiple of 0.5 degree nearest to 180 / (n - 1) degrees.
NearestHalfDegree(precisionPhi, n) ==
    /\ precisionPhi % 500 = 0
    /\ Abs(precisionPhi * (n - 1) - Deg(180)) <= 250 * (n - 1)

\* The job has the precision of a PlaneSymmetrical file of 181 radial values.
PrecisionOf181 ==
    /\ entry = "convert_zemax_to_speos_bsdf"
    /\ pc \in {"resample.call", "resample.end", "normalize.call"}
         \/ (pc = "raised" /\ err = "ZeroDivisionError")
    /\ loc.symmetry = "PlaneSymmetrical"
    /\ len(loc.scatterRadial) = 181

\* C13 as claimed: for PlaneSymmetrical and 181 radial values, precisionPhi is
\* the multiple of 0.5 nearest to 180 / (n - 1) for every azimuth length n >= 2.
C13_NearestHalfDegreeForEveryLength ==
    PrecisionOf181 => NearestHalfDegree(loc.precisionPhi, len(loc.scatterAzimuth))

\* C13 as amended: for PlaneSymmetrical and 181 radial values, precisionPhi is
\* a multiple of 0.5 nearest to 180 / (n - 1) for every azimuth length n from
\* 2 to 1000; a longer axis is capped and precisionPhi is 0.5.
C13_NearestHalfDegreeUpToTheCap ==
    PrecisionOf181 =>
        IF len(loc.scatterAzimuth) <= 1000
        THEN NearestHalfDegree(loc.precisionPhi, len(loc.scatterAzimuth))
        ELSE loc.precisionPhi = 500

\* An azimuth axis of 14 values: 180 / 13 = 13.846 is rounded to 13.8 and then
\* up, to 14.0.
C13_Witness ==
    /\ PrecisionOf181
    /\ len(loc.scatterAzimuth) = 14
    /\ loc.precisionPhi = Deg(14)

\* The rotated direction of the input of a transform that has returned.
RotatedDirection ==
    IF entry = "convert_normal_to_specular_using_cartesian"
    THEN Normalized(ToSpecularCartesian(Cartesian(loc.theta_i, loc.phi_i),
                                        Sin(loc.angle_inc), Cos(loc.angle_inc)))
    ELSE Normalized(ToNormalCartesian(Cartesian(loc.theta_i, loc.phi_i),
                                      Sin(loc.angle_inc), Cos(loc.angle_inc)))

\* A transform has returned, and the rotated x passed its test for 0.
AtThePole ==
    /\ pc = "returned"
    /\ IF entry = "convert_normal_to_specular_using_cartesian"
       THEN RotatedDirection[1] = 0
       ELSE RoundHalfEven(RotatedDirection[1], Scale \div 100) = 0

\* C19 as claimed: where the rotated x is 0 both transforms assign the azimuth
\* 0, 90 or 270 for y = 0, y > 0, y < 0, and only NormalToSpecular then adds
\* its offset of 180.
C19_SamePoleBranchesInBothDirections ==
    AtThePole =>
        LET y     == RotatedDirection[2]
            phi_o == IF y > 0 THEN Deg(90) ELSE IF y < 0 THEN Deg(270) ELSE 0
        IN  loc.result[2] = IF entry = "convert_normal_to_specular_using_cartesian"
                            THEN (phi_o + Deg(180)) % Deg(360)
                            ELSE phi_o

\* C19 as amended: where the rotated x is 0 (exactly in NormalToSpecular,
\* rounded to 2 decimals in SpecularToNormal), NormalToSpecular assigns 0, 90
\* or 270 for y = 0, y > 0, y < 0 and adds its offset of 180; SpecularToNormal
\* assigns the input azimuth, 270 or 90 for y = 0, y > 0, y < 0 and adds no
\* offset.  For y # 0 both return 270 for y > 0 and 90 for y < 0.
C19_PoleBranchesOfEachDirection ==
    AtThePole =>
        LET y == SignOfY(RotatedDirection[2], loc.theta_i, loc.phi_i)
        IN  IF entry = "convert_normal_to_specular_using_cartesian"
            THEN loc.result[2] = (IF RotatedDirection[2] > 0 THEN Deg(270)
                                  ELSE IF RotatedDirection[2] < 0 THEN Deg(90)
                                  ELSE Deg(180))
            ELSE loc.result[2] = (IF y > 0 THEN Deg(270)
                                  ELSE IF y < 0 THEN Deg(90)
                                  ELSE RoundHalfEven(loc.phi_i, 10))

\* NormalToSpecular has returned for a direction whose rotated x is 0 and
\* whose y is positive.
C19_Witness ==
    /\ AtThePole
    /\ entry = "convert_normal_to_specular_using_cartesian"
    /\ RotatedDirection[2] > 0
    /\ loc.result[2] = Deg(270)

-----------------------------------------------------------------------------
\* C14: the Speos file convert_zemax_to_speos_bsdf produces has a header line
\* that declares a format version of at least 8.0, the version the Speos
\* reader of the module requires.
C14_WrittenSpeosVersionIsReadable ==
    \A f \in fs : f.content.kind = "speos" => ~VersionTooOld(f.content.version)

\* The loop body of convert_zemax_speos_bsdf_data has transformed the
\* direction of the cell recorded in frame.cell.
CellMapped ==
    /\ pc \in {"resample.cell", "resample.end"}
         \/ (pc = "raised" /\ err \in {"IndexError", TruthValueError})
    /\ loc.frame.cell.assigned

\* C15: the Speos-to-Zemax job resamples with the SpecularToNormal transform
\* whatever the value of bool_speos_brdf: the polar angle of every target cell
\* is the one convert_specular_to_normal_using_cartesian gives for the cell's
\* direction and the incidence of its block.
C15_SpeosToZemaxIsSpecularToNormal ==
    (entry = "convert_speos_to_zemax_bsdf" /\ CellMapped) =>
        LET c  == loc.frame.cell
            fr == loc.frame
        IN  c.newTheta =
              convert_specular_to_normal_using_cartesian(
                  c.k * fr.precisionTheta, c.l * fr.precisionPhi,
                  fr.sampleRotation[c.i % fr.nbSampleRotation])[1]

\* The text of a BTDF file is ready to be written by the Speos-to-Zemax job.
ZemaxBtdfText ==
    /\ entry = "convert_speos_to_zemax_bsdf"
    /\ pc = "write_file.open"
    /\ loc.nLines.scatterType = "BTDF"

\* The text of a file is ready to be written by the Zemax-to-Speos job.
SpeosText ==
    /\ entry = "convert_zemax_to_speos_bsdf"
    /\ pc = "write_file.open"

\* The resampled value behind the value number l of row k of block j of the
\* Zemax text.
ZemaxSource(j, k, l) ==
    loc.bsdfDataZemax[j + loc.nbAngleIncidence * loc.index_RT][loc.index_wavelength][l][k]

\* C16 as claimed: every value the Zemax writer writes for a BTDF file is the
\* resampled value times cos((180 - theta) * pi / 180) of its theta.
C16_ZemaxWriterAppliesCosine ==
    ZemaxBtdfText =>
        \A j \in 0..(loc.nbAngleIncidence - 1),
           k \in DOMAIN loc.line_phi, l \in DOMAIN loc.line_theta :
            loc.nLines.rows[0][j][k][l]
              = Format3e(TimesCosine(Cos(Deg(180) - loc.line_theta[l]), ZemaxSource(j, k, l)))

\* C16 as amended: the cosine pre-multiplication cos((180 - theta) * pi / 180)
\* for BTDF is applied by the Speos writer (and not for BRDF); the Zemax
\* writer writes every value, of a BRDF and of a BTDF file, without a factor.
C16_SpeosWriterAppliesCosine ==
    /\ SpeosText =>
          \A i \in 0..(loc.nbSampleRotation - 1), j \in 0..(loc.nbAngleIncidence - 1),
             k \in DOMAIN loc.line_theta, x \in DOMAIN loc.line_phi :
              loc.nLines.blocks[i][j].values[k][x]
                = IF loc.scatterType = "BTDF"
                  THEN TimesCosine(Cos(Deg(180) - loc.line_theta[k]), loc.bsdfDataSpeos[i][j][k][x])
                  ELSE loc.bsdfDataSpeos[i][j][k][x]
    /\ (entry = "convert_speos_to_zemax_bsdf" /\ pc = "write_file.open") =>
          \A j \in 0..(loc.nbAngleIncidence - 1),
             k \in DOMAIN loc.line_phi, l \in DOMAIN loc.line_theta :
              loc.nLines.rows[0][j][k][l] = Format3e(ZemaxSource(j, k, l))

\* The Speos text of a BTDF file holds a value the cosine has changed.
C16_Witness ==
    /\ SpeosText
    /\ loc.scatterType = "BTDF"
    /\ \E i \in 0..(loc.nbSampleRotation - 1), j \in 0..(loc.nbAngleIncidence - 1),
          k \in DOMAIN loc.line_theta, x \in DOMAIN loc.line_phi :
           /\ loc.nLines.blocks[i][j].values[k][x] # loc.bsdfDataSpeos[i][j][k][x]
           /\ loc.nLines.blocks[i][j].values[k][x] # 0

\* The scatter types the files of the Speos-to-Zemax job are tagged with.
WrittenTypes ==
    IF loc.nb_reflection_transmission > 1 THEN {"BRDF", "BTDF"} ELSE {file_type \in {"BRDF", "BTDF"} :
        file_type = (IF file.transmission = "1" THEN "BTDF" ELSE "BRDF")}

\* C17: convert_speos_to_zemax_bsdf emits exactly one Zemax file per
\* (wavelength, scatter type), nbWavelength x (1 or 2) files of distinct names,
\* and each header declares one sample rotation, of value 0.
C17_OneFilePerWavelengthAndType ==
    (entry = "convert_speos_to_zemax_bsdf" /\ pc = "done" /\ loc.bool_success = 1) =>
        /\ Cardinality(fs) = loc.nbWavelength * loc.nb_reflection_transmission
        /\ Cardinality({f.path : f \in fs}) = Cardinality(fs)
        /\ \A w \in DOMAIN loc.wavelength, t \in WrittenTypes :
              Cardinality({f \in fs : /\ f.content.kind = "zemax"
                                       /\ f.content.wavelength = loc.wavelength[w]
                                       /\ f.content.scatterType = t}) = 1
        /\ \A f \in fs : /\ f.content.nbSampleRotation = 1
                          /\ f.content.sampleRotation = Arr(<<0>>)

\* A job on a file with both flags set and two wavelengths has written its
\* four files.
C17_Witness ==
    /\ entry = "convert_speos_to_zemax_bsdf"
    /\ pc = "done"
    /\ loc.bool_success = 1
    /\ loc.nb_reflection_transmission = 2
    /\ loc.nbWavelength = 2
    /\ Cardinality(fs) = 4

\* The number of groups a Speos file stacks: reflection, then transmission.
FileGroups == IF file.reflection = "1" /\ file.transmission = "1" THEN 2 ELSE 1

\* The position in the file of the block of group g (0 reflection, 1
\* transmission when both are there), incidence a and wavelength w.
FilePosition(g, a, w) == (g * file.nbAngleIncidence + a) * file.nbWavelength + w

\* C18: read_speos_bsdf reads the data of a file with both flags set as two
\* stacked groups, reflection first: tisData has 2 x nbAngleIncidence rows and
\* nbWavelength columns, 2 x nbAngleIncidence x nbWavelength blocks are read,
\* and the stacked index g * nbAngleIncidence + a is group g at incidence a;
\* with one flag set the counts are nbAngleIncidence x nbWavelength.
C18_StackedGroupsAreReadInOrder ==
    pc = "read_speos.return" =>
        LET fr == loc.frame
            nI == file.nbAngleIncidence
            nW == file.nbWavelength
        IN  /\ len(fr.tisData) = FileGroups * nI
            /\ \A i \in DOMAIN fr.tisData : len(fr.tisData[i]) = nW
            /\ len(fr.bsdfData_list) = FileGroups * nI * nW
            /\ len(fr.scatterRadial_list) = FileGroups * nI * nW
            /\ linesRead = 10 + FileGroups * nI * nW * (3 + len(file.scatterRadial))
            /\ \A g \in 0..(FileGroups - 1), a \in 0..(nI - 1), w \in 0..(nW - 1) :
                  /\ fr.tisData[g * nI + a][w] = FileTIS(file, FilePosition(g, a, w))
                  /\ \A x \in DOMAIN file.scatterAzimuth, r \in DOMAIN file.scatterRadial :
                        fr.bsdfData_list[(g * nI + a) * nW + w][x][r]
                          = FileSample(file, FilePosition(g, a, w), x, r)

\* The reader has read a file with both flags set, two incidences and two
\* wavelengths.
C18_Witness ==
    /\ pc = "read_speos.return"
    /\ FileGroups = 2
    /\ file.nbAngleIncidence = 2
    /\ file.nbWavelength = 2
    /\ len(loc.frame.tisData) = 4

\* C20: every text the Zemax writer produces is consistent with the Zemax
\* grammar: the declared counts are the lengths of the value lines, the data
\* section runs from DataBegin to DataEnd and holds SampleRotation x
\* AngleOfIncidence blocks, each a TIS line and one row per azimuth value, each
\* row one value per radial value.
C20_ZemaxTextIsSelfConsistent ==
    (entry = "convert_speos_to_zemax_bsdf" /\ pc = "write_file.open") =>
        LET t == loc.nLines
        IN  /\ t.nbSampleRotation = len(t.sampleRotation)
            /\ t.nbAngleIncidence = len(t.angleIncidence)
            /\ t.nbScatterAzimuth = len(t.scatterAzimuth)
            /\ t.nbScatterRadial = len(t.scatterRadial)
            /\ t.dataBegin = "DataBegin"
            /\ t.dataEnd = "DataEnd"
            /\ DOMAIN t.tisLines = 0..(t.nbSampleRotation - 1)
            /\ DOMAIN t.rows = 0..(t.nbSampleRotation - 1)
            /\ \A i \in DOMAIN t.rows :
                  /\ DOMAIN t.tisLines[i] = 0..(t.nbAngleIncidence - 1)
                  /\ DOMAIN t.rows[i] = 0..(t.nbAngleIncidence - 1)
                  /\ \A j \in DOMAIN t.rows[i] :
                        /\ DOMAIN t.rows[i][j] = 0..(t.nbScatterAzimuth - 1)
                        /\ \A k \in DOMAIN t.rows[i][j] :
                              DOMAIN t.rows[i][j][k] = 0..(t.nbScatterRadial - 1)

\* The text of a file with two incidences, more azimuth values than radial
\* values, is ready to be written.
C20_Witness ==
    /\ entry = "convert_speos_to_zemax_bsdf"
    /\ pc = "write_file.open"
    /\ loc.nLines.nbAngleIncidence = 2
    /\ loc.nLines.nbScatterAzimuth > loc.nLines.nbScatterRadial


-----------------------------------------------------------------------------
\* C21: each entry point writes its output files alongside the input: the
\* path handed to write_file is in the directory of the input file, for every
\* input path.
C21_OutputIsWrittenAlongsideTheInput ==
    pc \in {"write_file.open", "write_file.write", "write_file.close"} =>
        dirname(loc.outputFilepath) = dirname(file.path)


-----------------------------------------------------------------------------
\* epsabs of the nquad call, in 1/Unit.
QuadratureTolerance == Unit \div 10

\* The integral of the slice (i, j) as normalize_bsdf_data received it.
IntegralBefore(i, j) ==
    IntegralValue(loc.bsdfDataSpeos[i][j], loc.frame.line_theta, loc.frame.line_phi)

\* The integral of the slice (i, j) as normalize_bsdf_data returns it.
IntegralAfter(i, j) ==
    IntegralValue(loc.frame.bsdfData[i][j], loc.frame.line_theta, loc.frame.line_phi)

\* The slices with a positive integral whose factor TIS / integral the
\* fixed-point numbers represent.
ScaledSlices ==
    { s \in (0..(loc.frame.nbSampleRotation - 1)) \X (0..(loc.frame.nbAngleIncidence - 1)) :
        /\ IntegralBefore(s[1], s[2]) > 0
        /\ loc.frame.tisData[s[1]][s[2]] * Unit < MaxFactor * IntegralBefore(s[1], s[2]) }

-----------------------------------------------------------------------------
\* C23: read_speos_bsdf either fails at a fatal check or returns a tuple in
\* which ScatterType and Symmetry are defined: when the reader reaches its
\* return statement, for either extension and any flags, both have a value.
C23_ReaderReturnsTypeAndSymmetry ==
    pc = "read_speos.return" =>
        /\ loc.frame.scatterType # Unbound
        /\ loc.frame.symmetry # Unbound


-----------------------------------------------------------------------------
\* The phi the transform returned for the recorded cell, before any folding.
TransformedPhi ==
    LET c  == loc.frame.cell
        fr == loc.frame
    IN  NewAngles(fr.bool_speos_brdf, c.k * fr.precisionTheta, c.l * fr.precisionPhi,
                  fr.sampleRotation[c.i % fr.nbSampleRotation], fr.angleIncidence[c.j])[2]

\* C24: in convert_zemax_speos_bsdf_data the folding is applied exactly when
\* symmetry is PlaneSymmetrical and the transformed phi is above 180: the
\* lookup azimuth is then 360 - phi and lies in [0, 180); for any other
\* symmetry, or phi <= 180, the lookup azimuth is the transformed phi.
C24_FoldingOnlyForPlaneSymmetryAbove180 ==
    (CellDone /\ loc.frame.cell.lookup) =>
        IF loc.frame.symmetry = "PlaneSymmetrical" /\ TransformedPhi > Deg(180)
        THEN /\ loc.frame.cell.newPhi = Deg(360) - TransformedPhi
             /\ loc.frame.cell.newPhi >= 0
             /\ loc.frame.cell.newPhi < Deg(180)
        ELSE loc.frame.cell.newPhi = TransformedPhi

\* A cell of a PlaneSymmetrical file whose transformed phi was folded.
C24_Witness ==
    /\ CellDone
    /\ loc.frame.cell.lookup
    /\ loc.frame.symmetry = "PlaneSymmetrical"
    /\ TransformedPhi > Deg(180)
    /\ loc.frame.cell.newPhi = Deg(360) - TransformedPhi


-----------------------------------------------------------------------------
\* C25: both readers deliver azimuth-major blocks of the declared dimensions.
\* read_zemax_bsdf returns nbSampleRotation x nbAngleIncidence blocks of
\* nbScatterAzimuth x nbScatterRadial entries indexed [azimuth][radial];
\* read_speos_bsdf returns blocks indexed [azimuth][radial] of the counts of
\* the block, whose entry [b][a] is the sample the file holds on radial row a
\* in azimuth column b.
C25_BlocksAreAzimuthMajor ==
    /\ pc = "read_zemax.return" =>
          LET fr == loc.frame
          IN  /\ DOMAIN fr.bsdfData = 0..(fr.nbSampleRotation - 1)
              /\ \A i \in DOMAIN fr.bsdfData :
                    /\ DOMAIN fr.bsdfData[i] = 0..(fr.nbAngleIncidence - 1)
                    /\ \A j \in DOMAIN fr.bsdfData[i] :
                          /\ DOMAIN fr.bsdfData[i][j] = 0..(fr.nbScatterAzimuth - 1)
                          /\ \A b \in DOMAIN fr.bsdfData[i][j] :
                                /\ DOMAIN fr.bsdfData[i][j][b] = 0..(fr.nbScatterRadial - 1)
                                /\ \A a \in DOMAIN fr.bsdfData[i][j][b] :
                                      fr.bsdfData[i][j][b][a]
                                        = FileSample(file, i * fr.nbAngleIncidence + j, b, a)
    /\ pc = "read_speos.return" =>
          LET fr == loc.frame
          IN  \A n \in DOMAIN fr.bsdfData_list :
                /\ DOMAIN fr.bsdfData_list[n] = DOMAIN file.scatterAzimuth
                /\ \A b \in DOMAIN fr.bsdfData_list[n] :
                      /\ DOMAIN fr.bsdfData_list[n][b] = DOMAIN file.scatterRadial
                      /\ \A a \in DOMAIN fr.bsdfData_list[n][b] :
                            fr.bsdfData_list[n][b][a] = bsdfDataBlock(file, n)[a][b]

\* The Speos reader has read a block with more azimuth than radial values
\* whose samples differ across the diagonal.
C25_Witness ==
    /\ pc = "read_speos.return"
    /\ len(file.scatterAzimuth) > len(file.scatterRadial)
    /\ loc.frame.bsdfData_list[0][1][0] # loc.frame.bsdfData_list[0][0][1]

-----------------------------------------------------------------------------
\* The position, in the lists read_speos_bsdf returned, of the block of the
\* recorded cell: stacked block index i, wavelength index j.
FlatPosition == loc.frame.cell.i * loc.nbWavelength + loc.frame.cell.j

\* A cell of the Speos-to-Zemax resampling (bool_speos_brdf = 1) has been
\* looked up in its source block.
SpeosCellLookedUp ==
    /\ entry = "convert_speos_to_zemax_bsdf"
    /\ CellDone
    /\ loc.frame.bool_speos_brdf = 1
    /\ loc.frame.cell.lookup
    /\ loc.frame.cell.exc = "none"

\* C26: in the Speos-to-Zemax resampling with bool_speos_brdf = 1 the block
\* and the two axes used for the output slice (i, j) are those the reader read
\* at the flat position i * nbWavelength + j of the file, and the incidence
\* handed to the transform is angleIncidence[i mod nbAngleIncidence]; for
\* every slice, the transmission half included.
C26_SliceUsesItsOwnBlockAndAxes ==
    SpeosCellLookedUp =>
        LET c  == loc.frame.cell
            fr == loc.frame
            new == convert_specular_to_normal_using_cartesian(
                       c.k * fr.precisionTheta, c.l * fr.precisionPhi,
                       loc.angleIncidence[c.i % loc.nbAngleIncidence])
        IN  /\ c.index = FlatPosition
            /\ loc.bsdfData[FlatPosition] = transpose(bsdfDataBlock(file, FlatPosition))
            /\ c.newTheta = new[1]
            /\ c.bsdfValue =
                 CellLookup(new[1], FoldPhi(loc.symmetry, new[2]),
                            ThetaBracket(loc.scatterRadial[FlatPosition], new[1]),
                            PhiBracket(loc.scatterAzimuth[FlatPosition],
                                       FoldPhi(loc.symmetry, new[2])),
                            loc.bsdfData[FlatPosition]).bsdfValue

\* A cell of the transmission half, at the second incidence and the second
\* wavelength, has taken a value from its block.
C26_Witness ==
    /\ SpeosCellLookedUp
    /\ loc.nb_reflection_transmission = 2
    /\ loc.nbAngleIncidence = 2
    /\ loc.frame.cell.i = 3
    /\ loc.frame.cell.j = 1
    /\ loc.frame.cell.bsdfValue # 0


-----------------------------------------------------------------------------
\* The step in which convert_zemax_speos_bsdf_data returns to the
\* Zemax-to-Speos job (bool_speos_brdf = 0).
ZemaxToSpeosResampleReturns ==
    /\ entry = "convert_zemax_to_speos_bsdf"
    /\ pc = "resample.end"
    /\ pc' = "normalize.call"

\* C27: in the Zemax-to-Speos resampling the hemisphere follows the scatter
\* type.  For BRDF the returned theta axis is k * precisionTheta, within
\* [0, 90], and the returned dataset is the interpolated one; for BTDF the
\* axis is 90 + k * precisionTheta, within [90, 180], and row k of every
\* returned slice is row nbTheta - 1 - k of the interpolated slice.
C27_HemisphereFollowsScatterType ==
    [][ ZemaxToSpeosResampleReturns =>
          LET fr == loc.frame
              rows == 0..(fr.nbTheta - 1)
          IN  /\ DOMAIN loc'.line_theta = rows
              /\ DOMAIN loc'.bsdfDataSpeos = 0..(fr.nbSampleRotation - 1)
              /\ IF fr.scatterType = "BRDF"
                 THEN /\ \A k \in rows :
                            /\ loc'.line_theta[k] = k * fr.precisionTheta
                            /\ loc'.line_theta[k] >= 0
                            /\ loc'.line_theta[k] <= Deg(90)
                      /\ loc'.bsdfDataSpeos = fr.temp_bsdfData
                 ELSE /\ \A k \in rows :
                            /\ loc'.line_theta[k] = Deg(90) + k * fr.precisionTheta
                            /\ loc'.line_theta[k] >= Deg(90)
                            /\ loc'.line_theta[k] <= Deg(180)
                      /\ \A i \in 0..(fr.nbSampleRotation - 1),
                            j \in 0..(fr.nbAngleIncidence - 1), k \in rows :
                            loc'.bsdfDataSpeos[i][j][k]
                              = fr.temp_bsdfData[i][j][fr.nbTheta - 1 - k] ]_vars

\* The resampling of a BTDF file has returned an axis that starts at 90 and a
\* slice whose first and last rows differ.
C27_Witness ==
    /\ entry = "convert_zemax_to_speos_bsdf"
    /\ pc = "normalize.call"
    /\ loc.scatterType = "BTDF"
    /\ loc.line_theta[0] = Deg(90)
    /\ loc.bsdfDataSpeos[0][0][0] # loc.bsdfDataSpeos[0][0][len(loc.line_theta) - 1]


-----------------------------------------------------------------------------
\* nbTheta_max and nbPhi_max of phi_theta_recommended_precision.
SampleCap == 1000

\* C28: for axes of two values or more, above the cap included, and either
\* symmetry, phi_theta_recommended_precision returns two strictly positive
\* multiples of 0.5, so that the grid sizes int(90 / precisionTheta + 1) and
\* int(360 / precisionPhi + 1) of the resampler are defined, below the cap,
\* and the resampler does not divide by zero.
C28_PrecisionIsAPositiveHalfDegreeMultiple ==
    /\ (entry = "convert_zemax_to_speos_bsdf" /\ pc = "resample.call") =>
          /\ loc.precisionTheta > 0
          /\ loc.precisionTheta % (Deg(1) \div 2) = 0
          /\ loc.precisionPhi > 0
          /\ loc.precisionPhi % (Deg(1) \div 2) = 0
          /\ (Deg(90) \div loc.precisionTheta) + 1 <= SampleCap
          /\ (Deg(360) \div loc.precisionPhi) + 1 <= SampleCap
    /\ ~(pc = "raised" /\ err = "ZeroDivisionError")


=============================================================================
